---- MODULE Spec2Model ----
(***************************************************************************)
(* A model of the Squalr scanning engine's concurrency:                    *)
(*   - the snapshot behind its reader-writer lock, the value collector and *)
(*     the element scan executor working on it (SpecScan, FairSpecScan);   *)
(*   - the dependency container: ArcSwap slot, writer mutex, write guards  *)
(*     (SpecDep);                                                          *)
(*   - the element scanner view data, its scan timeout threads and the     *)
(*     engine as seen from the view (SpecView).                            *)
(***************************************************************************)
EXTENDS Integers, Sequences, FiniteSets, TLC

\* ------------------------------------------------------------------ bounds

\* Task slots of the engine (element scans and value collections together).
MaxTasks == 2
\* Regions a new scan puts into the snapshot.
NumRegions == 2
\* Threads writing one dependency, each through one write guard.
NumWriters == 2
\* Mutations a writer makes through its guard.
MaxMutations == 2
\* Scan passes the view starts.
MaxPasses == 2
\* ScanNew requests of reset_scan() in flight.
MaxResets == 1

Tasks == 1..MaxTasks
RegionIds == 1..NumRegions
Writers == 1..NumWriters
\* The threads reading the dependency: readers take no lock and do not act on
\* each other, so one stands for all.
Readers == {"reader"}
Passes == 1..MaxPasses

\* ---------------------------------------------------------------- variables

VARIABLES
    \* --- engine: snapshot and tasks
    snapshot,            \* regions stored in the engine's Arc<RwLock<Snapshot>>
    snapshot_lock,       \* 0, or the task holding the snapshot write guard
    task_kind,           \* "none" | "scan" | "collect"
    task_pc,             \* position of the task's thread
    memory_read_mode,    \* ScanSettingsConfig::get_memory_read_mode()
    snapshot_regions,    \* the task's local vector of taken-out regions
    unvisited,           \* indices of snapshot_regions the iterator has not visited
    cancellation_token,  \* the task's AtomicBool
    registered,          \* tasks held by the trackable task manager
    waiter_pc,           \* the thread execute() spawns to wait for the task
    events,              \* ScanResultsUpdatedEvent { is_new_scan: false } emitted, per scan
    \* --- engine: history
    changed_regions,     \* history: the task has changed a region it took out
    processed_after_cancel, \* history: the task processed a region with its token set
    region_reads,        \* history: the <<region id, Ok>> of the reads of the task's current pass
    \* --- dependency container
    heap,                \* the values behind the Arcs: cell -> set of mutations applied
    shared_lock,         \* the ArcSwap<T> of the dependency: the cell it points to
    write_mutex,         \* the writer mutex of the type: 0, or the writer holding it
    guard_pc,            \* "none" | "live" | "dropped" | "try_failed", per writer
    uncomitted_value_ref,\* WriteGuard::uncomitted_value_ref: the draft's cell
    committed,           \* WriteGuard::committed
    mutations,           \* mutations made through the guard so far
    reader_guard,        \* the cell a reader's Guard<Arc<T>> points to, 0 if none
    \* --- dependency container: history
    last_stored,         \* the value last stored in the ArcSwap, as it was stored
    stored_mutations,    \* mutations that were in a draft when it was stored
    aborted,             \* abort() was called on the live guard
    drop_lost_draft,     \* the guard was dropped unaborted and its draft was not published
    write_mutex_poisoned, \* a thread panicked while it held the writer mutex
    panicked,            \* history: the writer panicked while mutating through its guard
    read_value,          \* the value the reader got from read()
    read_stored,         \* that value was the registered one or one stored as a whole
    \* --- element scanner view
    view_state,          \* ElementScannerViewState
    scan_task_id,        \* Option<String>: 0 is None
    scan_progress,       \* "zero" | "task" | "one"
    last_error_message,  \* Option<String>: "None" is None
    view_write_mutex,    \* writer mutex of the view data: "free" | "stuck"
    progress_listener,   \* the pass whose progress listener holds the write guard, or 0
    new_scan_pending,    \* ScanNew requests of new_scan() not yet answered
    reset_pending,       \* ScanNew requests of reset_scan() not yet answered
    passes_started,      \* scan passes started by start_next_scan
    request,             \* per pass: "none" | "sent" | "executed"
    response,            \* per pass: "none" | "handle" | "no_handle" | "delivered"
    task,                \* per pass: "none" | "running" | "complete"
    event,               \* per pass: "none" | "emitted" | "delivered"
    cancel_requested,    \* per pass: a TrackableTasksCancelRequest was sent
    timeout_pc,          \* per pass: "none" | "sleeping" | "expired" | "done"
    \* --- element scanner view: history
    incomplete_at_expiry,\* per pass: its task was running when its timeout expired
    timed_out_reported,  \* per pass: its timeout thread set "Scan timed out."
    ui_cancel,           \* per pass: cancel_scan ran while the pass was in progress
    \* --- one snapshot region and its value buffers, in blocks of 1 KiB
    region_size,         \* SnapshotRegion::get_region_size, 0 once marked unreadable
    page_boundaries,     \* offsets of the page boundaries inside the region
    current_values,      \* per block: the read that filled it, 0 for the zeroed allocation
    previous_values,     \* the same, for the buffer of the read before
    page_boundary_tombstones, \* offsets of the slices that failed to read
    read_result,         \* "none" | "Ok" | "Err": what the last read returned
    read_count,          \* reads made of the region
    \* --- region buffers: history
    prior_current_values,\* current_values as it was before the last read
    slice_results,       \* per slice of the last read: whether read_bytes succeeded
    relative_scan_read,  \* the read after which a relative scan last ran, 0 for none
    \* --- one call of the aligned vector scanner on one filter
    scanner_pc,          \* "idle" | "done"
    filter_base,         \* snapshot_region_filter.get_base_address()
    filter_size,         \* snapshot_region_filter.get_region_size(), in bytes
    memory_alignment,    \* the plan's alignment, equal to the unit size
    compare_func,        \* per complete element of the filter: what the comparator returns
    vector_available,    \* get_scan_function_vector() is Some
    scalar_available,    \* get_scan_function_scalar() is Some
    emitted_filters,     \* the result regions, each <<base, size>>
    loads,               \* the <<start, end>> byte ranges of the filter the call loaded
    \* --- one pointer scan task and the request that started it
    pointer_pc,          \* "idle" | "depth" | "expand" | "write_sink" | "publish" | "done"
    pointer_map,         \* pointer value -> the addresses it was read at, ascending
    target_address,      \* the address the scan looks for paths to
    max_offset,          \* get_offset_size()
    max_depth,           \* get_max_depth().max(1)
    depth,               \* the level being expanded
    frontier,            \* the <<target, offsets>> of this level, in order
    next_frontier,       \* the <<target, offsets>> pushed for the next level
    candidates,          \* the <<pointer address, new offsets>> of this level still to iterate
    visited,             \* the (pointer address, level) keys inserted
    found_results,       \* results: each <<pointer address, offsets, level found at>>
    pointer_cancellation_token, \* the task's cancellation token
    results_sink,        \* the results written to the sink
    pointer_scan_results,\* the results the engine state holds
    \* --- pointer scan: history
    expanded_at_cap,     \* a result or a target was pushed with the cap already reached
    candidates_cut,      \* candidates were left when the cap was reached
    pointer_task_progress, \* the progress last set, <<numerator, denominator>>
    pointer_task_registered, \* the task manager holds the pointer scan task
    \* --- one element scan request, from its arrival to its response
    plan_pc,             \* "idle" | "done"
    opened_process,      \* get_opened_process() is Some
    region_count,        \* the snapshot's get_region_count() when the request arrives
    explicit_alignment,  \* get_memory_alignment(), 0 for None
    fast_scan_enabled,   \* get_fast_scan_enabled()
    fast_scan_alignment, \* get_fast_scan_alignment(), 0 for None
    fast_scan_last_digits, \* get_fast_scan_last_digits() is Some
    unit_sizes,          \* per requested data type: its unit size in bytes
    constraint_counts,   \* per requested data type: the constraints left after deanonymization
    plan_alignment,      \* the alignment chosen, 0 while none was
    trackable_task_handle, \* the response carries a task handle
    plan_task_started,   \* ElementScanExecutorTask::start_task was called
    plan_task_registered,\* register_task was called
    plan_region_count,   \* the snapshot's region count when the request returns
    \* --- one FromSettings page query
    query_pc,            \* "idle" | "done"
    virtual_pages,       \* the usermode pages of the target, in address order
    required_page_flags, \* get_required_protection_settings()
    excluded_page_flags, \* get_excluded_protection_settings()
    allowed_type_flags,  \* get_allowed_type_settings()
    only_query_usermode, \* get_only_query_usermode()
    only_main_module_image, \* get_only_main_module_image(), the main module being found
    normalized_regions,  \* the regions returned, each <<page, size>>
    \* --- the scan settings, their file, and the threads calling setters
    config,              \* the ScanSettings behind the RwLock
    config_file,         \* the content of scan_settings.json, <<>> while the file is empty or absent
    config_readers,      \* the threads holding a read guard of config
    setter_pc,           \* per thread: "idle" | "save" | "create" | "write_all" | "drop"
    json,                \* per thread: the text save_config serialized
    \* --- settings: history
    setter_calls,        \* setter calls made
    last_set,            \* per thread: <<field, value>> its last setter stored, <<>> before
    file_at_return,      \* per thread: config_file as its last setter returned
    setters_returned,    \* per thread: setter calls that returned
    write_failed,        \* an fs::write of save_config failed
    \* --- the writer mutexes of the dependency types
    write_mutexes_initialized, \* WRITE_MUTEXES holds its map
    write_mutexes,       \* the map: per dependency type its mutex, 0 for no entry
    write_mutexes_lock,  \* the thread holding the map's mutex, 0 for none
    leaked_mutexes,      \* the mutexes leaked so far; mutex k is the k-th
    lookup_pc,           \* per thread: "idle" | "get" | "lock" | "entry" | "unlock"
    lookup_type,         \* per thread: the T of its lookup
    lookup_mutex,        \* per thread: write_mutex, 0 before the entry is read
    \* --- writer mutexes: history
    lookups_made,        \* lookups started
    lookups_returned     \* the <<type, mutex>> of every lookup that returned

scanVars == <<snapshot, snapshot_lock, task_kind, task_pc, memory_read_mode,
              snapshot_regions, unvisited, cancellation_token, registered,
              waiter_pc, events, changed_regions, processed_after_cancel,
              region_reads>>

depVars == <<heap, shared_lock, write_mutex, guard_pc, uncomitted_value_ref, committed,
             mutations, reader_guard, last_stored, stored_mutations, aborted,
             drop_lost_draft, write_mutex_poisoned, panicked, read_value, read_stored>>

viewVars == <<view_state, scan_task_id, scan_progress, last_error_message,
              view_write_mutex, progress_listener, new_scan_pending, reset_pending, passes_started,
              request, response, task, event, cancel_requested, timeout_pc,
              incomplete_at_expiry, timed_out_reported, ui_cancel>>

readVars == <<region_size, page_boundaries, current_values, previous_values,
              page_boundary_tombstones, read_result, read_count, prior_current_values,
              slice_results, relative_scan_read>>

vectorVars == <<scanner_pc, filter_base, filter_size, memory_alignment, compare_func,
                vector_available, scalar_available, emitted_filters, loads>>

pointerVars == <<pointer_pc, pointer_map, target_address, max_offset, max_depth, depth,
                 frontier, next_frontier, candidates, visited, found_results,
                 pointer_cancellation_token, results_sink, pointer_scan_results,
                 expanded_at_cap, candidates_cut, pointer_task_progress,
                 pointer_task_registered>>

planVars == <<plan_pc, opened_process, region_count, explicit_alignment, fast_scan_enabled,
              fast_scan_alignment, fast_scan_last_digits, unit_sizes, constraint_counts,
              plan_alignment, trackable_task_handle, plan_task_started, plan_task_registered,
              plan_region_count>>

queryVars == <<query_pc, virtual_pages, required_page_flags, excluded_page_flags,
               allowed_type_flags, only_query_usermode, only_main_module_image,
               normalized_regions>>

settingsVars == <<config, config_file, config_readers, setter_pc, json, setter_calls,
                  last_set, file_at_return, setters_returned, write_failed>>

lookupVars == <<write_mutexes_initialized, write_mutexes, write_mutexes_lock, leaked_mutexes,
                lookup_pc, lookup_type, lookup_mutex, lookups_made, lookups_returned>>

vars == <<scanVars, depVars, viewVars, readVars, vectorVars, pointerVars, planVars, queryVars, settingsVars, lookupVars>>

\* What the actions of one part of the model leave alone.
nonScanVars == <<depVars, viewVars, readVars, vectorVars, pointerVars, planVars, queryVars, settingsVars, lookupVars>>
nonDepVars == <<scanVars, viewVars, readVars, vectorVars, pointerVars, planVars, queryVars, settingsVars, lookupVars>>
nonViewVars == <<scanVars, depVars, readVars, vectorVars, pointerVars, planVars, queryVars, settingsVars, lookupVars>>
nonReadVars == <<scanVars, depVars, viewVars, vectorVars, pointerVars, planVars, queryVars, settingsVars, lookupVars>>
nonVectorVars == <<scanVars, depVars, viewVars, readVars, pointerVars, planVars, queryVars, settingsVars, lookupVars>>
nonPointerVars == <<scanVars, depVars, viewVars, readVars, vectorVars, planVars, queryVars, settingsVars, lookupVars>>
nonPlanVars == <<scanVars, depVars, viewVars, readVars, vectorVars, pointerVars, queryVars, settingsVars, lookupVars>>
nonQueryVars == <<scanVars, depVars, viewVars, readVars, vectorVars, pointerVars, planVars, settingsVars, lookupVars>>
nonSettingsVars == <<scanVars, depVars, viewVars, readVars, vectorVars, pointerVars, planVars, queryVars, lookupVars>>
nonLookupVars == <<scanVars, depVars, viewVars, readVars, vectorVars, pointerVars, planVars, queryVars, settingsVars>>

\* ------------------------------------------------------------------ regions

\* A snapshot region: its size (0 once marked unreadable) and its scan results,
\* one filter collection per scanned data type (the view scans one type), each
\* reduced to whether its filters still hold results ("matches") or none
\* ("empty"). The value buffers are left to the model of the region reader.
NewRegion(id) == [id |-> id, size |-> 1, scan_results |-> <<>>]

\* ScanNew: the baseline snapshot built from the queried pages.
NewSnapshot == [i \in RegionIds |-> NewRegion(i)]

\* SnapshotRegion::mark_unreadable
mark_unreadable(region) == [region EXCEPT !.size = 0]

\* SnapshotRegion::initialize_scan_results: creates initial results if none exist.
initialize_scan_results(region) ==
    IF region.scan_results = <<>>
    THEN [region EXCEPT !.scan_results = <<"matches">>]
    ELSE region

\* The results a scanner can leave for a region: it only narrows.
NarrowedResults(region) ==
    IF region.scan_results[1] = "matches" THEN {"matches", "empty"} ELSE {"empty"}

RECURSIVE DropUnreadable(_)
DropUnreadable(regions) ==
    IF regions = <<>> THEN <<>>
    ELSE IF Head(regions).size = 0 THEN DropUnreadable(Tail(regions))
    ELSE <<Head(regions)>> \o DropUnreadable(Tail(regions))

\* Snapshot::set_snapshot_regions: discards the regions of size 0.
set_snapshot_regions(regions) == DropUnreadable(regions)

\* Snapshot::get_region_count
get_region_count == Len(snapshot)

\* ------------------------------------------------------- engine: initial state

\* MemoryReadMode
ReadModes == {"ReadBeforeScan", "ReadInterleavedWithScan"}

InitScan ==
    /\ snapshot = <<>>
    /\ snapshot_lock = 0
    /\ task_kind = [t \in Tasks |-> "none"]
    /\ task_pc = [t \in Tasks |-> "idle"]
    /\ memory_read_mode \in ReadModes
    /\ snapshot_regions = [t \in Tasks |-> <<>>]
    /\ unvisited = [t \in Tasks |-> {}]
    /\ cancellation_token = [t \in Tasks |-> FALSE]
    /\ registered = {}
    /\ waiter_pc = [t \in Tasks |-> "none"]
    /\ events = [t \in Tasks |-> 0]
    /\ changed_regions = [t \in Tasks |-> FALSE]
    /\ processed_after_cancel = [t \in Tasks |-> FALSE]
    /\ region_reads = [t \in Tasks |-> {}]

\* The next unused task slot: requests are numbered in the order they are served.
FreeSlot(t) == task_pc[t] = "idle" /\ \A u \in Tasks : u < t => task_pc[u] # "idle"

\* ------------------------------------------------------- engine: requests

\* ScanNew: replaces the snapshot by a fresh baseline under the write lock. The
\* model builds a baseline only while no task is in flight, as the view does.
ScanNew ==
    /\ snapshot_lock = 0
    /\ \A t \in Tasks : task_pc[t] \in {"idle", "refused", "done"}
    /\ snapshot # NewSnapshot
    /\ snapshot' = NewSnapshot
    /\ UNCHANGED <<snapshot_lock, task_kind, task_pc, memory_read_mode, nonScanVars, snapshot_regions,
                   unvisited, cancellation_token, registered, waiter_pc, events,
                   changed_regions,
                   processed_after_cancel, region_reads>>

\* ElementScanRequest::execute: refuses an empty snapshot and a request without a
\* valid constraint; otherwise starts the task, registers it, spawns the waiter
\* and returns the task handle.
ElementScanExecute(t, has_constraints) ==
    /\ FreeSlot(t)
    /\ snapshot_lock = 0
    /\ task_kind' = [task_kind EXCEPT ![t] = "scan"]
    /\ IF get_region_count = 0 \/ ~has_constraints
       THEN /\ task_pc' = [task_pc EXCEPT ![t] = "refused"]
            /\ UNCHANGED <<registered, waiter_pc,
                   processed_after_cancel, region_reads>>
       ELSE /\ task_pc' = [task_pc EXCEPT ![t] =
                   IF memory_read_mode = "ReadBeforeScan" THEN "collect_start"
                   ELSE "scan_start"]
            /\ registered' = registered \cup {t}
            /\ waiter_pc' = [waiter_pc EXCEPT ![t] = "waiting"]
    /\ UNCHANGED <<snapshot, snapshot_lock, memory_read_mode, nonScanVars, snapshot_regions,
                   unvisited, cancellation_token, events, changed_regions,
                   processed_after_cancel, region_reads>>

\* ScanCollectValues: starts a value collector task on the engine's snapshot.
CollectValuesExecute(t) ==
    /\ FreeSlot(t)
    /\ task_kind' = [task_kind EXCEPT ![t] = "collect"]
    /\ task_pc' = [task_pc EXCEPT ![t] = "collect_start"]
    /\ registered' = registered \cup {t}
    /\ UNCHANGED <<snapshot, snapshot_lock, memory_read_mode, nonScanVars, snapshot_regions, unvisited,
                   cancellation_token, waiter_pc, events, changed_regions,
                   processed_after_cancel, region_reads>>

\* TrackableTasksCancel: sets the cancellation token of a registered task. A
\* cancel that arrives after the task has ended is left out: the token is not
\* read again.
CancelTask(t) ==
    /\ t \in registered
    /\ task_pc[t] # "done"
    /\ ~cancellation_token[t]
    /\ cancellation_token' = [cancellation_token EXCEPT ![t] = TRUE]
    /\ UNCHANGED <<snapshot, snapshot_lock, task_kind, task_pc, memory_read_mode, nonScanVars,
                   snapshot_regions, unvisited, registered, waiter_pc, events,
                   changed_regions,
                   processed_after_cancel, region_reads>>

\* ------------------------------------------------------- value collector task

\* The token the collector polls: its own task's. The collector a scan runs
\* first (ReadBeforeScan) is a task of its own, which nobody cancels.
CollectorCancelled(t) == task_kind[t] = "collect" /\ cancellation_token[t]

\* collect_values_task: snapshot.write() before the take-out.
CollectLockForTake(t) ==
    /\ task_pc[t] = "collect_start"
    /\ snapshot_lock = 0
    /\ snapshot_lock' = t
    /\ task_pc' = [task_pc EXCEPT ![t] = "collect_take"]
    /\ UNCHANGED <<snapshot, task_kind, memory_read_mode, nonScanVars, snapshot_regions, unvisited,
                   cancellation_token, registered, waiter_pc, events, changed_regions,
                   processed_after_cancel, region_reads>>

\* collect_values_task: std::mem::take of the regions; the guard is dropped at the
\* end of the block.
CollectTakeRegions(t) ==
    /\ task_pc[t] = "collect_take"
    /\ snapshot_regions' = [snapshot_regions EXCEPT ![t] = snapshot]
    /\ unvisited' = [unvisited EXCEPT ![t] = DOMAIN snapshot]
    /\ snapshot' = <<>>
    /\ snapshot_lock' = 0
    /\ task_pc' = [task_pc EXCEPT ![t] = "collect_work"]
    /\ region_reads' = [region_reads EXCEPT ![t] = {}]
    /\ UNCHANGED <<task_kind, memory_read_mode, nonScanVars, cancellation_token, registered,
                   waiter_pc, events, changed_regions,
                   processed_after_cancel>>

CollectedRegionKeepingFailed(t, region, read_ok) == region

\* What read_memory_iterator leaves of one region: nothing changes when
\* cancelled; a region whose read returns Err is marked unreadable.
CollectedRegion(t, region, read_ok) ==
    IF CollectorCancelled(t) THEN region
    ELSE IF read_ok THEN region
    ELSE mark_unreadable(region)

\* read_memory_iterator on one region.
CollectRegion(t, i, read_ok) ==
    /\ task_pc[t] = "collect_work"
    /\ i \in unvisited[t]
    /\ unvisited' = [unvisited EXCEPT ![t] = @ \ {i}]
    /\ snapshot_regions' = [snapshot_regions EXCEPT ![t][i] =
           CollectedRegion(t, @, read_ok)]
    /\ changed_regions' = [changed_regions EXCEPT ![t] =
           @ \/ CollectedRegion(t, snapshot_regions[t][i], read_ok) # snapshot_regions[t][i]]
    /\ processed_after_cancel' = [processed_after_cancel EXCEPT ![t] =
           @ \/ (cancellation_token[t] /\ ~CollectorCancelled(t))]
    /\ region_reads' = [region_reads EXCEPT ![t] = 
           IF CollectorCancelled(t) THEN @ ELSE @ \cup {<<snapshot_regions[t][i].id, read_ok>>}]
    /\ UNCHANGED <<snapshot, snapshot_lock, task_kind, task_pc, memory_read_mode, nonScanVars,
                   cancellation_token, registered, waiter_pc, events>>

\* collect_values_task: snapshot.write() before the put-back, once the parallel
\* iteration has ended.
CollectLockForStore(t) ==
    /\ task_pc[t] = "collect_work"
    /\ unvisited[t] = {}
    /\ snapshot_lock = 0
    /\ snapshot_lock' = t
    /\ task_pc' = [task_pc EXCEPT ![t] = "collect_store"]
    /\ UNCHANGED <<snapshot, task_kind, memory_read_mode, nonScanVars, snapshot_regions, unvisited,
                   cancellation_token, registered, waiter_pc, events, changed_regions,
                   processed_after_cancel, region_reads>>

\* collect_values_task: set_snapshot_regions and the end of the task. A scan that
\* waited for this collector goes on with its own take-out.
CollectStoreBack(t) ==
    /\ task_pc[t] = "collect_store"
    /\ snapshot' = set_snapshot_regions(snapshot_regions[t])
    /\ snapshot_lock' = 0
    /\ snapshot_regions' = [snapshot_regions EXCEPT ![t] = <<>>]
    /\ task_pc' = [task_pc EXCEPT ![t] =
           IF task_kind[t] = "scan" THEN "scan_start" ELSE "done"]
    /\ registered' = IF task_kind[t] = "collect" THEN registered \ {t} ELSE registered
    /\ UNCHANGED <<task_kind, memory_read_mode, nonScanVars, unvisited, cancellation_token,
                   waiter_pc, events, changed_regions,
                   processed_after_cancel, region_reads>>

\* ------------------------------------------------------- element scan task

\* scan_task: snapshot.write() before the take-out.
ScanLockForTake(t) ==
    /\ task_pc[t] = "scan_start"
    /\ snapshot_lock = 0
    /\ snapshot_lock' = t
    /\ task_pc' = [task_pc EXCEPT ![t] = "scan_take"]
    /\ UNCHANGED <<snapshot, task_kind, memory_read_mode, nonScanVars, snapshot_regions, unvisited,
                   cancellation_token, registered, waiter_pc, events, changed_regions,
                   processed_after_cancel, region_reads>>

\* Mutant of ScanTakeRegions: the write guard outlives the take-out block.
ScanTakeRegionsKeepingGuard(t) ==
    /\ task_pc[t] = "scan_take"
    /\ snapshot_regions' = [snapshot_regions EXCEPT ![t] = snapshot]
    /\ unvisited' = [unvisited EXCEPT ![t] = DOMAIN snapshot]
    /\ snapshot' = <<>>
    /\ task_pc' = [task_pc EXCEPT ![t] = "scan_work"]
    /\ region_reads' = [region_reads EXCEPT ![t] = {}]
    /\ UNCHANGED <<snapshot_lock, task_kind, memory_read_mode, nonScanVars, cancellation_token,
                   registered, waiter_pc, events, changed_regions,
                   processed_after_cancel>>

\* scan_task: std::mem::take of the regions; the guard is dropped at the end of
\* the block.
ScanTakeRegions(t) ==
    /\ task_pc[t] = "scan_take"
    /\ snapshot_regions' = [snapshot_regions EXCEPT ![t] = snapshot]
    /\ unvisited' = [unvisited EXCEPT ![t] = DOMAIN snapshot]
    /\ snapshot' = <<>>
    /\ snapshot_lock' = 0
    /\ task_pc' = [task_pc EXCEPT ![t] = "scan_work"]
    /\ region_reads' = [region_reads EXCEPT ![t] = {}]
    /\ UNCHANGED <<task_kind, memory_read_mode, nonScanVars, cancellation_token, registered,
                   waiter_pc, events, changed_regions,
                   processed_after_cancel>>

\* What snapshot_iterator leaves of one region: nothing changes when cancelled;
\* otherwise the results are initialized, the values are read (interleaved
\* mode; Err marks the region unreadable and ends the unit), and the scanners
\* narrow the results to `results`.
ScannedRegion(t, region, read_ok, results) ==
    IF cancellation_token[t] THEN region
    ELSE IF memory_read_mode = "ReadInterleavedWithScan"
    THEN IF read_ok
         THEN [initialize_scan_results(region) EXCEPT !.scan_results = <<results>>]
         ELSE mark_unreadable(initialize_scan_results(region))
    ELSE [initialize_scan_results(region) EXCEPT !.scan_results = <<results>>]

\* snapshot_iterator goes past its poll of the token.
ScanProcesses(t) == ~cancellation_token[t]

\* snapshot_iterator on one region.
ScanRegion(t, i, read_ok, results) ==
    /\ task_pc[t] = "scan_work"
    /\ i \in unvisited[t]
    /\ results \in NarrowedResults(initialize_scan_results(snapshot_regions[t][i]))
    /\ unvisited' = [unvisited EXCEPT ![t] = @ \ {i}]
    /\ snapshot_regions' = [snapshot_regions EXCEPT ![t][i] =
           ScannedRegion(t, @, read_ok, results)]
    /\ changed_regions' = [changed_regions EXCEPT ![t] =
           @ \/ ScannedRegion(t, snapshot_regions[t][i], read_ok, results)
                   # snapshot_regions[t][i]]
    /\ processed_after_cancel' = [processed_after_cancel EXCEPT ![t] =
           @ \/ (cancellation_token[t] /\ ScanProcesses(t))]
    /\ region_reads' = [region_reads EXCEPT ![t] = 
           IF ScanProcesses(t) /\ memory_read_mode = "ReadInterleavedWithScan"
           THEN @ \cup {<<snapshot_regions[t][i].id, read_ok>>} ELSE @]
    /\ UNCHANGED <<snapshot, snapshot_lock, task_kind, task_pc, memory_read_mode, nonScanVars,
                   cancellation_token, registered, waiter_pc, events>>

\* scan_task: snapshot.write() before the put-back, once the iteration has ended.
ScanLockForStore(t) ==
    /\ task_pc[t] = "scan_work"
    /\ unvisited[t] = {}
    /\ snapshot_lock = 0
    /\ snapshot_lock' = t
    /\ task_pc' = [task_pc EXCEPT ![t] = "scan_store"]
    /\ UNCHANGED <<snapshot, task_kind, memory_read_mode, nonScanVars, snapshot_regions, unvisited,
                   cancellation_token, registered, waiter_pc, events, changed_regions,
                   processed_after_cancel, region_reads>>

\* scan_task: set_snapshot_regions, then the task completes.
ScanStoreBack(t) ==
    /\ task_pc[t] = "scan_store"
    /\ snapshot' = set_snapshot_regions(snapshot_regions[t])
    /\ snapshot_lock' = 0
    /\ snapshot_regions' = [snapshot_regions EXCEPT ![t] = <<>>]
    /\ task_pc' = [task_pc EXCEPT ![t] = "done"]
    /\ UNCHANGED <<task_kind, memory_read_mode, nonScanVars, unvisited, cancellation_token, registered,
                   waiter_pc, events, changed_regions,
                   processed_after_cancel, region_reads>>

\* Mutant of WaiterEmit: the event is emitted without waiting for the task.
WaiterEmitWithoutWaiting(t) ==
    /\ waiter_pc[t] = "waiting"
    /\ registered' = registered \ {t}
    /\ events' = [events EXCEPT ![t] = @ + 1]
    /\ waiter_pc' = [waiter_pc EXCEPT ![t] = "emitted"]
    /\ UNCHANGED <<snapshot, snapshot_lock, task_kind, task_pc, memory_read_mode, nonScanVars,
                   snapshot_regions, unvisited, cancellation_token, changed_regions,
                   processed_after_cancel, region_reads>>

\* The thread execute() spawned: wait_for_completion, unregister_task, then
\* emit ScanResultsUpdatedEvent { is_new_scan: false }.
WaiterEmit(t) ==
    /\ waiter_pc[t] = "waiting"
    /\ task_pc[t] = "done"
    /\ registered' = registered \ {t}
    /\ events' = [events EXCEPT ![t] = @ + 1]
    /\ waiter_pc' = [waiter_pc EXCEPT ![t] = "emitted"]
    /\ UNCHANGED <<snapshot, snapshot_lock, task_kind, task_pc, memory_read_mode, nonScanVars,
                   snapshot_regions, unvisited, cancellation_token, changed_regions,
                   processed_after_cancel, region_reads>>

\* ------------------------------------------------------- engine: specification

NextScan ==
    \/ ScanNew
    \/ \E t \in Tasks, has_constraints \in BOOLEAN : ElementScanExecute(t, has_constraints)
    \/ \E t \in Tasks : CollectValuesExecute(t)
    \/ \E t \in Tasks : CancelTask(t)
    \/ \E t \in Tasks : CollectLockForTake(t)
    \/ \E t \in Tasks : CollectTakeRegions(t)
    \/ \E t \in Tasks, i \in RegionIds, read_ok \in BOOLEAN : CollectRegion(t, i, read_ok)
    \/ \E t \in Tasks : CollectLockForStore(t)
    \/ \E t \in Tasks : CollectStoreBack(t)
    \/ \E t \in Tasks : ScanLockForTake(t)
    \/ \E t \in Tasks : ScanTakeRegions(t)
    \/ \E t \in Tasks, i \in RegionIds, read_ok \in BOOLEAN,
          results \in {"matches", "empty"} : ScanRegion(t, i, read_ok, results)
    \/ \E t \in Tasks : ScanLockForStore(t)
    \/ \E t \in Tasks : ScanStoreBack(t)
    \/ \E t \in Tasks : WaiterEmit(t)

\* ------------------------------------------------- dependency container

\* A value of the dependency is the set of mutations applied to the registered
\* value; mutation k of writer w is <<w, k>>.
RegisteredValue == {}

InitDep ==
    /\ heap = <<RegisteredValue>>
    /\ shared_lock = 1
    /\ write_mutex = 0
    /\ guard_pc = [w \in Writers |-> "none"]
    /\ uncomitted_value_ref = [w \in Writers |-> 0]
    /\ committed = [w \in Writers |-> FALSE]
    /\ mutations = [w \in Writers |-> 0]
    /\ reader_guard = [r \in Readers |-> 0]
    /\ last_stored = RegisteredValue
    /\ stored_mutations = {}
    /\ aborted = [w \in Writers |-> FALSE]
    /\ drop_lost_draft = [w \in Writers |-> FALSE]
    /\ write_mutex_poisoned = FALSE
    /\ panicked = [w \in Writers |-> FALSE]
    /\ read_value = [r \in Readers |-> RegisteredValue]
    /\ read_stored = [r \in Readers |-> TRUE]

\* The content of a cell whose Arc has been freed.
Freed == {<<0, 0>>}

\* The cell a new Arc is allocated in: a freed one, or a fresh one.
Alloc(h) ==
    IF \E c \in DOMAIN h : h[c] = Freed
    THEN CHOOSE c \in DOMAIN h : h[c] = Freed /\ \A d \in DOMAIN h : h[d] = Freed => c <= d
    ELSE Len(h) + 1

\* Cell c of h set to value.
Store(h, c, value) == IF c = Len(h) + 1 THEN Append(h, value) ELSE [h EXCEPT ![c] = value]

\* Dropping the last Arc of a cell frees it: the heap with only the cells kept
\* that the ArcSwap, a guard's draft or a reader's guard points to.
Reclaim(h, slot, drafts, guards) ==
    [c \in DOMAIN h |->
        IF \/ c = slot
           \/ \E w \in Writers : drafts[w] = c
           \/ \E r \in Readers : guards[r] = c
        THEN h[c] ELSE Freed]

\* Arc::strong_count > 1: the ArcSwap, a reader or another guard points to the
\* cell of writer w's draft as well.
Shared(w) ==
    LET cell == uncomitted_value_ref[w] IN
        \/ shared_lock = cell
        \/ \E r \in Readers : reader_guard[r] = cell
        \/ \E v \in Writers : v # w /\ uncomitted_value_ref[v] = cell

\* A thread that holds no guard may ask for one.
MayAcquire(w) == guard_pc[w] \in {"none", "try_failed"}

\* WriteGuard::new: load_full() of the ArcSwap is the draft, committed = false.
WriteGuardNew(w) ==
    /\ uncomitted_value_ref' = [uncomitted_value_ref EXCEPT ![w] = shared_lock]
    /\ committed' = [committed EXCEPT ![w] = FALSE]
    /\ guard_pc' = [guard_pc EXCEPT ![w] = "live"]

\* Mutant of Write: the guard is built without waiting for the writer mutex.
WriteWithoutMutex(w) ==
    /\ MayAcquire(w)
    /\ write_mutex' = w
    /\ WriteGuardNew(w)
    /\ UNCHANGED <<nonDepVars, heap, shared_lock, mutations, reader_guard,
                   last_stored, stored_mutations, aborted, drop_lost_draft, read_value, read_stored,
                   write_mutex_poisoned, panicked>>

\* Dependency::write: blocks on the writer mutex of the type, a poisoned one
\* being recovered with into_inner, then builds the guard.
Write(w) ==
    /\ MayAcquire(w)
    /\ write_mutex = 0
    /\ write_mutex' = w
    /\ WriteGuardNew(w)
    /\ UNCHANGED <<nonDepVars, heap, shared_lock, mutations, reader_guard,
                   last_stored, stored_mutations, aborted, drop_lost_draft, read_value, read_stored,
                   write_mutex_poisoned, panicked>>

\* Mutant of TryWrite: try_lock succeeds whoever holds the mutex.
TryWriteAlwaysLocks(w) ==
    /\ MayAcquire(w)
    /\ write_mutex' = w
    /\ WriteGuardNew(w)
    /\ UNCHANGED <<nonDepVars, heap, shared_lock, mutations, reader_guard,
                   last_stored, stored_mutations, aborted, drop_lost_draft, read_value, read_stored,
                   write_mutex_poisoned, panicked>>

\* Dependency::try_write: try_lock; None when the mutex is held or poisoned.
TryWrite(w) ==
    /\ MayAcquire(w)
    /\ IF write_mutex = 0 /\ ~write_mutex_poisoned
       THEN /\ write_mutex' = w
            /\ WriteGuardNew(w)
       ELSE /\ guard_pc' = [guard_pc EXCEPT ![w] = "try_failed"]
            /\ UNCHANGED <<write_mutex, uncomitted_value_ref, committed>>
    /\ UNCHANGED <<nonDepVars, heap, shared_lock, mutations, reader_guard,
                   last_stored, stored_mutations, aborted, drop_lost_draft, read_value, read_stored,
                   write_mutex_poisoned, panicked>>

\* Mutant of DerefMut: the draft is mutated in place also when its Arc is shared.
DerefMutInPlace(w) ==
    /\ guard_pc[w] = "live"
    /\ mutations[w] < MaxMutations
    /\ mutations' = [mutations EXCEPT ![w] = @ + 1]
    /\ heap' = [heap EXCEPT ![uncomitted_value_ref[w]] = @ \cup {<<w, mutations[w] + 1>>}]
    /\ UNCHANGED <<nonDepVars, shared_lock, write_mutex, guard_pc,
                   uncomitted_value_ref, committed, reader_guard, last_stored,
                   stored_mutations, aborted, drop_lost_draft, read_value, read_stored,
                   write_mutex_poisoned, panicked>>

\* WriteGuard::deref_mut and a mutation through it: Arc::make_mut clones the
\* value into a fresh Arc if the Arc is shared, and mutates in place otherwise.
DerefMut(w) ==
    /\ guard_pc[w] = "live"
    /\ mutations[w] < MaxMutations
    /\ mutations' = [mutations EXCEPT ![w] = @ + 1]
    /\ IF Shared(w)
       THEN /\ uncomitted_value_ref' = [uncomitted_value_ref EXCEPT ![w] = Alloc(heap)]
            /\ heap' = Store(heap, Alloc(heap),
                             heap[uncomitted_value_ref[w]] \cup {<<w, mutations[w] + 1>>})
       ELSE /\ heap' = [heap EXCEPT ![uncomitted_value_ref[w]] =
                                        @ \cup {<<w, mutations[w] + 1>>}]
            /\ UNCHANGED uncomitted_value_ref
    /\ UNCHANGED <<nonDepVars, shared_lock, write_mutex, guard_pc, committed,
                   reader_guard, last_stored, stored_mutations, aborted,
                   drop_lost_draft, read_value, read_stored,
                   write_mutex_poisoned, panicked>>

\* WriteGuard::commit: store a clone of the draft's Arc, committed = true.
Commit(w) ==
    /\ guard_pc[w] = "live"
    /\ shared_lock' = uncomitted_value_ref[w]
    /\ committed' = [committed EXCEPT ![w] = TRUE]
    /\ last_stored' = heap[uncomitted_value_ref[w]]
    /\ stored_mutations' = stored_mutations \cup heap[uncomitted_value_ref[w]]
    /\ heap' = Reclaim(heap, shared_lock', uncomitted_value_ref, reader_guard)
    /\ UNCHANGED <<nonDepVars, write_mutex, guard_pc, uncomitted_value_ref,
                   mutations, reader_guard, aborted, drop_lost_draft, read_value, read_stored,
                   write_mutex_poisoned, panicked>>

\* WriteGuard::abort: committed = true, nothing is stored.
Abort(w) ==
    /\ guard_pc[w] = "live"
    /\ committed' = [committed EXCEPT ![w] = TRUE]
    /\ aborted' = [aborted EXCEPT ![w] = TRUE]
    /\ UNCHANGED <<nonDepVars, heap, shared_lock, write_mutex, guard_pc,
                   uncomitted_value_ref, mutations, reader_guard, last_stored,
                   stored_mutations, drop_lost_draft, read_value, read_stored,
                   write_mutex_poisoned, panicked>>

\* Drop for WriteGuard: stores the draft unless committed is set; the fields,
\* the mutex guard among them, are dropped after that.
DropWriteGuard(w) ==
    /\ guard_pc[w] = "live"
    /\ guard_pc' = [guard_pc EXCEPT ![w] = "dropped"]
    /\ write_mutex' = IF write_mutex = w THEN 0 ELSE write_mutex
    /\ IF ~committed[w]
       THEN /\ shared_lock' = uncomitted_value_ref[w]
            /\ last_stored' = heap[uncomitted_value_ref[w]]
            /\ stored_mutations' = stored_mutations \cup heap[uncomitted_value_ref[w]]
       ELSE UNCHANGED <<shared_lock, last_stored, stored_mutations>>
    /\ drop_lost_draft' =
           [drop_lost_draft EXCEPT ![w] =
               ~aborted[w] /\ heap[shared_lock'] # heap[uncomitted_value_ref[w]]]
    /\ uncomitted_value_ref' = [uncomitted_value_ref EXCEPT ![w] = 0]
    /\ committed' = [committed EXCEPT ![w] = FALSE]
    /\ aborted' = [aborted EXCEPT ![w] = FALSE]
    /\ mutations' = [mutations EXCEPT ![w] = 0]
    /\ heap' = Reclaim(heap, shared_lock', uncomitted_value_ref', reader_guard)
    /\ UNCHANGED <<nonDepVars, reader_guard, read_value, read_stored>>

\* The guard goes out of scope.
Drop(w) ==
    /\ DropWriteGuard(w)
    /\ UNCHANGED <<write_mutex_poisoned, panicked>>

\* The writer panics while it holds the guard: the unwinding drops the guard,
\* Drop for WriteGuard runs as in a normal drop, and the MutexGuard, dropped
\* by a panicking thread, poisons the writer mutex.
Panic(w) ==
    /\ DropWriteGuard(w)
    /\ write_mutex_poisoned' = TRUE
    /\ panicked' = [panicked EXCEPT ![w] = TRUE]

\* Dependency::read: ArcSwap::load, whatever the writers do.
Read(r) ==
    /\ reader_guard[r] = 0
    /\ reader_guard' = [reader_guard EXCEPT ![r] = shared_lock]
    /\ read_value' = [read_value EXCEPT ![r] = heap[shared_lock]]
    /\ read_stored' = [read_stored EXCEPT ![r] = heap[shared_lock] = last_stored]
    /\ UNCHANGED <<nonDepVars, heap, shared_lock, write_mutex, guard_pc,
                   uncomitted_value_ref, committed, mutations, last_stored,
                   stored_mutations, aborted, drop_lost_draft,
                   write_mutex_poisoned, panicked>>

\* The reader drops its Guard<Arc<T>>.
ReleaseRead(r) ==
    /\ reader_guard[r] # 0
    /\ reader_guard' = [reader_guard EXCEPT ![r] = 0]
    /\ heap' = Reclaim(heap, shared_lock, uncomitted_value_ref, reader_guard')
    /\ UNCHANGED <<nonDepVars, shared_lock, write_mutex, guard_pc,
                   uncomitted_value_ref, committed, mutations, last_stored,
                   stored_mutations, aborted, drop_lost_draft, read_value, read_stored,
                   write_mutex_poisoned, panicked>>

NextDep ==
    \/ \E w \in Writers : Write(w)
    \/ \E w \in Writers : TryWrite(w)
    \/ \E w \in Writers : DerefMut(w)
    \/ \E w \in Writers : Commit(w)
    \/ \E w \in Writers : Abort(w)
    \/ \E w \in Writers : Drop(w)
    \/ \E w \in Writers : Panic(w)
    \/ \E r \in Readers : Read(r)
    \/ \E r \in Readers : ReleaseRead(r)

\* ------------------------------------------------- element scanner view

InitView ==
    /\ view_state = "NoResults"
    /\ scan_task_id = 0
    /\ scan_progress = "zero"
    /\ last_error_message = "None"
    /\ view_write_mutex = "free"
    /\ progress_listener = 0
    /\ new_scan_pending = 0
    /\ reset_pending = 0
    /\ passes_started = 0
    /\ request = [p \in Passes |-> "none"]
    /\ response = [p \in Passes |-> "none"]
    /\ task = [p \in Passes |-> "none"]
    /\ event = [p \in Passes |-> "none"]
    /\ cancel_requested = [p \in Passes |-> FALSE]
    /\ timeout_pc = [p \in Passes |-> "none"]
    /\ incomplete_at_expiry = [p \in Passes |-> FALSE]
    /\ timed_out_reported = [p \in Passes |-> FALSE]
    /\ ui_cancel = [p \in Passes |-> FALSE]

\* No thread holds the writer mutex of the view data: write() returns at once
\* and try_write() gets the guard.
ViewMutexFree == view_write_mutex = "free" /\ progress_listener = 0

\* The engine and timeout variables start_next_scan leaves alone when it starts
\* no pass.
NoPassStarted ==
    UNCHANGED <<view_state, scan_task_id, scan_progress, last_error_message,
                passes_started, request, timeout_pc>>

\* ElementScannerViewData::start_next_scan, entered with the write guard of the
\* view data taken. Without a valid constraint it calls write() again while it
\* holds the guard: the thread deadlocks on the writer mutex, or the lock call
\* panics and the unwinding drops the guard. With constraints it sets
\* ScanInProgress, schedules the timeout, clears progress, task id and error,
\* drops the guard and sends the ElementScanRequest.
start_next_scan(has_constraints) ==
    /\ ViewMutexFree
    /\ passes_started < MaxPasses
    /\ IF ~has_constraints
       THEN /\ view_write_mutex' \in {"stuck", "free"}
            /\ NoPassStarted
       ELSE /\ view_state' = "ScanInProgress"
            /\ timeout_pc' = [timeout_pc EXCEPT ![passes_started + 1] = "sleeping"]
            /\ scan_progress' = "zero"
            /\ scan_task_id' = 0
            /\ last_error_message' = "None"
            /\ request' = [request EXCEPT ![passes_started + 1] = "sent"]
            /\ passes_started' = passes_started + 1
            /\ UNCHANGED view_write_mutex

\* start_scan with results present: start_next_scan at once.
StartScanWithResults(has_constraints) ==
    /\ view_state = "HasResults"
    /\ start_next_scan(has_constraints)
    /\ UNCHANGED <<nonViewVars, progress_listener, ui_cancel, new_scan_pending, reset_pending, response, task,
                   event, cancel_requested, incomplete_at_expiry,
                   timed_out_reported>>

\* start_scan without results: new_scan sends a ScanNewRequest.
StartScanWithoutResults ==
    /\ view_state = "NoResults"
    /\ passes_started + new_scan_pending < MaxPasses
    /\ new_scan_pending' = new_scan_pending + 1
    /\ UNCHANGED <<nonViewVars, progress_listener, ui_cancel, view_state, scan_task_id, scan_progress,
                   last_error_message, view_write_mutex, reset_pending, passes_started,
                   request, response, task, event, cancel_requested, timeout_pc,
                   incomplete_at_expiry, timed_out_reported>>

\* The ScanNew response callback of new_scan: start_next_scan.
NewScanResponse(has_constraints) ==
    /\ new_scan_pending > 0
    /\ new_scan_pending' = new_scan_pending - 1
    /\ start_next_scan(has_constraints)
    /\ UNCHANGED <<nonViewVars, progress_listener, ui_cancel, reset_pending, response, task, event,
                   cancel_requested, incomplete_at_expiry,
                   timed_out_reported>>

\* The engine executes the ElementScanRequest of pass p: it starts a task and
\* answers with its handle, or answers without a handle.
EngineExecute(p, handle) ==
    /\ request[p] = "sent"
    /\ request' = [request EXCEPT ![p] = "executed"]
    /\ task' = [task EXCEPT ![p] = IF handle THEN "running" ELSE "none"]
    /\ response' = [response EXCEPT ![p] = IF handle THEN "handle" ELSE "no_handle"]
    /\ UNCHANGED <<nonViewVars, progress_listener, ui_cancel, view_state, scan_task_id, scan_progress,
                   last_error_message, view_write_mutex, new_scan_pending, reset_pending,
                   passes_started, event, cancel_requested, timeout_pc, incomplete_at_expiry, timed_out_reported>>

\* The response callback of start_next_scan.
ResponseDelivered(p) ==
    /\ response[p] \in {"handle", "no_handle"}
    /\ ViewMutexFree
    /\ response' = [response EXCEPT ![p] = "delivered"]
    /\ IF response[p] = "handle"
       THEN /\ scan_task_id' = p
            /\ scan_progress' = "task"
            /\ UNCHANGED <<view_state, last_error_message>>
       ELSE /\ view_state' = "NoResults"
            /\ scan_progress' = "zero"
            /\ scan_task_id' = 0
            /\ last_error_message' = "Scan failed (no process opened or invalid constraints)."
    /\ UNCHANGED <<nonViewVars, progress_listener, ui_cancel, view_write_mutex, new_scan_pending, reset_pending,
                   passes_started, request, task, event, cancel_requested, timeout_pc,
                   incomplete_at_expiry, timed_out_reported>>

\* poll_scan_state: the TrackableTaskProgressChangedEvent listener is called
\* with an event of the running task of pass p and takes the write guard.
TaskProgressLock(p) ==
    /\ task[p] = "running"
    /\ ViewMutexFree
    /\ progress_listener' = p
    /\ UNCHANGED <<nonViewVars, ui_cancel, view_state, scan_task_id, scan_progress,
                   last_error_message, view_write_mutex, new_scan_pending, reset_pending,
                   passes_started, request, response, task, event, cancel_requested,
                   timeout_pc, incomplete_at_expiry, timed_out_reported>>

\* poll_scan_state: under the guard, the listener takes the progress of the
\* event if the view holds the id of the event's task; the guard is dropped.
TaskProgress(p) ==
    /\ progress_listener = p
    /\ progress_listener' = 0
    /\ scan_progress' = IF scan_task_id = p THEN "task" ELSE scan_progress
    /\ UNCHANGED <<nonViewVars, ui_cancel, view_state, scan_task_id,
                   last_error_message, view_write_mutex, new_scan_pending, reset_pending,
                   passes_started, request, response, task, event, cancel_requested,
                   timeout_pc, incomplete_at_expiry, timed_out_reported>>

\* The task of pass p ends, cancelled or not, and the engine emits
\* ScanResultsUpdatedEvent { is_new_scan: false }.
TaskComplete(p) ==
    /\ task[p] = "running"
    /\ task' = [task EXCEPT ![p] = "complete"]
    /\ event' = [event EXCEPT ![p] = "emitted"]
    /\ UNCHANGED <<nonViewVars, progress_listener, ui_cancel, view_state, scan_task_id, scan_progress,
                   last_error_message, view_write_mutex, new_scan_pending, reset_pending,
                   passes_started, request, response, cancel_requested, timeout_pc,
                   incomplete_at_expiry, timed_out_reported>>

\* poll_scan_state: the ScanResultsUpdatedEvent listener.
EventDelivered(p) ==
    /\ event[p] = "emitted"
    /\ ViewMutexFree
    /\ event' = [event EXCEPT ![p] = "delivered"]
    /\ view_state' = "HasResults"
    /\ scan_progress' = "one"
    /\ scan_task_id' = 0
    /\ last_error_message' = "None"
    /\ UNCHANGED <<nonViewVars, progress_listener, ui_cancel, view_write_mutex, new_scan_pending, reset_pending,
                   passes_started, request, response, task, cancel_requested, timeout_pc,
                   incomplete_at_expiry, timed_out_reported>>

\* ElementScannerViewData::cancel_scan (the Cancel button, or Escape in
\* ElementScannerView::ui): returns if the view holds no task id; otherwise
\* sends the cancel for that id and, if try_write gets the guard, resets the
\* view. It takes no blocking lock.
cancel_scan ==
    /\ ui_cancel' = IF view_state = "ScanInProgress" /\ passes_started > 0
                    THEN [ui_cancel EXCEPT ![passes_started] = TRUE]
                    ELSE ui_cancel
    /\ IF scan_task_id = 0
       THEN UNCHANGED <<cancel_requested, view_state, scan_task_id, scan_progress,
                        last_error_message>>
       ELSE /\ cancel_requested' = [cancel_requested EXCEPT ![scan_task_id] = TRUE]
            /\ IF ViewMutexFree
               THEN /\ view_state' = "NoResults"
                    /\ scan_task_id' = 0
                    /\ scan_progress' = "zero"
                    /\ last_error_message' = "Scan canceled."
               ELSE UNCHANGED <<view_state, scan_task_id, scan_progress,
                                last_error_message>>
    /\ UNCHANGED <<nonViewVars, progress_listener, view_write_mutex,
                   new_scan_pending, reset_pending, passes_started, request, response,
                   task, event, timeout_pc, incomplete_at_expiry, timed_out_reported>>

\* ElementScannerViewData::reset_scan: unless a scan is in progress, sends a
\* ScanNewRequest.
reset_scan ==
    /\ view_state # "ScanInProgress"
    /\ reset_pending < MaxResets
    /\ reset_pending' = reset_pending + 1
    /\ UNCHANGED <<nonViewVars, progress_listener, ui_cancel, view_state, scan_task_id, scan_progress,
                   last_error_message, view_write_mutex, new_scan_pending, passes_started,
                   request, response, task, event, cancel_requested, timeout_pc,
                   incomplete_at_expiry, timed_out_reported>>

\* The ScanNew response callback of reset_scan.
ResetScanResponse ==
    /\ reset_pending > 0
    /\ ViewMutexFree
    /\ reset_pending' = reset_pending - 1
    /\ view_state' = "NoResults"
    /\ scan_progress' = "zero"
    /\ scan_task_id' = 0
    /\ last_error_message' = "None"
    /\ UNCHANGED <<nonViewVars, progress_listener, ui_cancel, view_write_mutex, new_scan_pending, passes_started,
                   request, response, task, event, cancel_requested, timeout_pc,
                   incomplete_at_expiry, timed_out_reported>>

\* A scan pass is incomplete while its request waits in the engine or its task
\* runs.
PassIncomplete(p) == request[p] = "sent" \/ task[p] = "running"

\* schedule_scan_timeout, after the sleep of SCAN_TIMEOUT_MS: the thread reads
\* the view data, returns unless a scan is in progress, and sends a cancel for
\* the task id it read, if it read one. The threads sleep the same time, so
\* they wake in the order they were spawned.
TimeoutExpire(p) ==
    /\ timeout_pc[p] = "sleeping"
    /\ \A q \in Passes : q < p => timeout_pc[q] # "sleeping"
    /\ incomplete_at_expiry' = [incomplete_at_expiry EXCEPT ![p] = PassIncomplete(p)]
    /\ IF view_state # "ScanInProgress"
       THEN /\ timeout_pc' = [timeout_pc EXCEPT ![p] = "done"]
            /\ UNCHANGED cancel_requested
       ELSE /\ timeout_pc' = [timeout_pc EXCEPT ![p] = "expired"]
            /\ cancel_requested' =
                   IF scan_task_id # 0
                   THEN [cancel_requested EXCEPT ![scan_task_id] = TRUE]
                   ELSE cancel_requested
    /\ UNCHANGED <<nonViewVars, progress_listener, ui_cancel, view_state, scan_task_id, scan_progress,
                   last_error_message, view_write_mutex, new_scan_pending, reset_pending,
                   passes_started, request, response, task, event, timed_out_reported>>

\* schedule_scan_timeout, the write at its end: if a scan is still in progress
\* the view is reset with "Scan timed out.".
TimeoutWrite(p) ==
    /\ timeout_pc[p] = "expired"
    /\ ViewMutexFree
    /\ timeout_pc' = [timeout_pc EXCEPT ![p] = "done"]
    /\ IF view_state = "ScanInProgress"
       THEN /\ view_state' = "NoResults"
            /\ scan_progress' = "zero"
            /\ scan_task_id' = 0
            /\ last_error_message' = "Scan timed out."
            /\ timed_out_reported' = [timed_out_reported EXCEPT ![p] = TRUE]
       ELSE UNCHANGED <<view_state, scan_progress, scan_task_id, last_error_message,
                        timed_out_reported>>
    /\ UNCHANGED <<nonViewVars, progress_listener, ui_cancel, view_write_mutex, new_scan_pending, reset_pending,
                   passes_started, request, response, task, event, cancel_requested,
                   incomplete_at_expiry>>

NextView ==
    \/ \E has_constraints \in BOOLEAN : StartScanWithResults(has_constraints)
    \/ StartScanWithoutResults
    \/ \E has_constraints \in BOOLEAN : NewScanResponse(has_constraints)
    \/ \E p \in Passes, handle \in BOOLEAN : EngineExecute(p, handle)
    \/ \E p \in Passes : ResponseDelivered(p)
    \/ \E p \in Passes : TaskProgressLock(p)
    \/ \E p \in Passes : TaskProgress(p)
    \/ \E p \in Passes : TaskComplete(p)
    \/ \E p \in Passes : EventDelivered(p)
    \/ cancel_scan
    \/ reset_scan
    \/ \E p \in Passes : TimeoutExpire(p)
    \/ \E p \in Passes : TimeoutWrite(p)

\* ------------------------------------------------- region value buffers
\* One snapshot region and its two value buffers, in blocks of 1 KiB (the least
\* chunk size). A block of a buffer holds the number of the read that filled it,
\* 0 for a block of the zeroed allocation that no read has filled.

MaxRegionSize == 3
MaxChunkSize == 2
MaxReads == 3

RegionSizes == 1..MaxRegionSize
ChunkSizes == 1..MaxChunkSize

InitRead ==
    /\ region_size = 0
    /\ page_boundaries = {}
    /\ current_values = <<>>
    /\ previous_values = <<>>
    /\ page_boundary_tombstones = {}
    /\ read_result = "absent"
    /\ read_count = 0
    /\ prior_current_values = <<>>
    /\ slice_results = <<>>
    /\ relative_scan_read = 0

\* A region enters the snapshot with empty buffers; a region merged from several
\* OS pages has their boundaries inside it.
CreateRegion(size, boundaries) ==
    /\ read_result = "absent"
    /\ region_size' = size
    /\ page_boundaries' = boundaries
    /\ read_result' = "none"
    /\ UNCHANGED <<nonReadVars, current_values, previous_values, page_boundary_tombstones,
                   read_count, prior_current_values, slice_results, relative_scan_read>>

Min(a, b) == IF a < b THEN a ELSE b

RECURSIVE Ascending(_)
Ascending(S) ==
    IF S = {} THEN <<>>
    ELSE LET least == CHOOSE x \in S : \A y \in S : x <= y
         IN <<least>> \o Ascending(S \ {least})

\* The buffer the read fills: the former previous_values, allocated zeroed at the
\* region's size when it is empty.
RecycledBufferOfFixedSize(previous, size) ==
    IF previous = <<>> /\ size > 0 THEN [i \in 1..MaxRegionSize |-> 0] ELSE previous

RecycledBuffer(previous, size) ==
    IF previous = <<>> /\ size > 0 THEN [i \in 1..size |-> 0] ELSE previous

\* The swap's other half: the former current_values become previous_values.
SwappedOutKeepingPrevious(current, previous) == previous

SwappedOut(current, previous) == current

\* The slices <<start, end>> of a buffer of len blocks cut at the page boundaries.
ReadRanges(len, boundaries) ==
    LET starts == Ascending({0} \cup boundaries)
    IN  [i \in 1..Len(starts) |->
            <<starts[i], IF i < Len(starts) THEN starts[i + 1] ELSE len>>]

\* chunks_mut(chunk_size) over one slice.
ChunksOfRange(range, chunk_size) ==
    LET total_chunks == ((range[2] - range[1]) + chunk_size - 1) \div chunk_size
    IN  [k \in 1..total_chunks |->
            <<range[1] + (k - 1) * chunk_size,
              Min(range[1] + k * chunk_size, range[2])>>]

RECURSIVE ChunkedRanges(_, _)
ChunkedRanges(ranges, chunk_size) ==
    IF Len(ranges) = 0 THEN <<>>
    ELSE ChunksOfRange(Head(ranges), chunk_size) \o ChunkedRanges(Tail(ranges), chunk_size)

\* read_bytes over every slice: a slice that reads is filled by this read, a
\* slice that fails keeps what the recycled buffer held.
ReadInto(buffer, read_ranges, results, read) ==
    [i \in 1..Len(buffer) |->
        IF \E k \in 1..Len(read_ranges) :
              results[k] /\ read_ranges[k][1] < i /\ i <= read_ranges[k][2]
        THEN read ELSE buffer[i]]

read_failures(read_ranges, results) ==
    {read_ranges[k][1] : k \in {j \in 1..Len(read_ranges) : ~results[j]}}

FailureCount(results) == Cardinality({k \in 1..Len(results) : ~results[k]})

ReadResultErrOnAnyFailure(total_ranges, failure_count) ==
    IF total_ranges > 0 /\ failure_count >= 1 THEN "Err" ELSE "Ok"

ReadResult(total_ranges, failure_count) ==
    IF total_ranges > 0 /\ failure_count >= total_ranges THEN "Err" ELSE "Ok"

\* What both reads do once the slices are known.
ReadRangesInto(buffer, read_ranges, results, keep_tombstones) ==
    /\ current_values' = ReadInto(buffer, read_ranges, results, read_count + 1)
    /\ previous_values' = SwappedOut(current_values, previous_values)
    /\ page_boundary_tombstones' =
          IF keep_tombstones THEN page_boundary_tombstones
          ELSE page_boundary_tombstones \cup read_failures(read_ranges, results)
    /\ read_result' = ReadResult(Len(read_ranges), FailureCount(results))
    /\ read_count' = read_count + 1
    /\ prior_current_values' = current_values
    /\ slice_results' = results
    /\ UNCHANGED <<nonReadVars, region_size, page_boundaries, relative_scan_read>>

read_all_memory ==
    /\ region_size > 0
    /\ read_count < MaxReads
    /\ LET buffer == RecycledBuffer(previous_values, region_size)
           read_ranges == ReadRanges(Len(buffer), page_boundaries)
       IN  \E results \in [1..Len(read_ranges) -> BOOLEAN] :
              ReadRangesInto(buffer, read_ranges, results, page_boundaries = {})

read_all_memory_chunked(chunk_size) ==
    /\ region_size > 0
    /\ read_count < MaxReads
    /\ LET buffer == RecycledBuffer(previous_values, region_size)
           read_ranges == ChunkedRanges(ReadRanges(Len(buffer), page_boundaries), chunk_size)
       IN  \E results \in [1..Len(read_ranges) -> BOOLEAN] :
              ReadRangesInto(buffer, read_ranges, results, FALSE)

\* The tasks mark a region whose read returned Err unreadable; the snapshot
\* drops it when the regions are put back.
MarkUnreadable ==
    /\ read_result = "Err"
    /\ region_size > 0
    /\ region_size' = 0
    /\ UNCHANGED <<nonReadVars, page_boundaries, current_values, previous_values,
                   page_boundary_tombstones, read_result, read_count,
                   prior_current_values, slice_results, relative_scan_read>>

\* The scan task dispatches the scanner on a region whose read did not return
\* Err, whatever the predicate: the check that the region can be compared is
\* commented out. With a relative or delta predicate the scanner loads from the
\* previous values at every offset it loads the current values from.
DispatchRelativeScan ==
    /\ region_size > 0
    /\ read_result = "Ok"
    /\ relative_scan_read < read_count
    /\ relative_scan_read' = read_count
    /\ UNCHANGED <<nonReadVars, region_size, page_boundaries, current_values,
                   previous_values, page_boundary_tombstones, read_result, read_count,
                   prior_current_values, slice_results>>

NextRead ==
    \/ \E size \in RegionSizes : \E boundaries \in SUBSET (1..(size - 1)) :
          CreateRegion(size, boundaries)
    \/ read_all_memory
    \/ \E chunk_size \in ChunkSizes : read_all_memory_chunked(chunk_size)
    \/ MarkUnreadable
    \/ DispatchRelativeScan

\* ------------------------------------------------- aligned vector scanner
\* One call of ScannerVectorAligned::<16>::scan_region on one filter. The
\* comparator is given by what it returns for each complete element of the
\* filter; a vector compare at a byte offset returns, lane by lane, what the
\* comparator returns for the element the lane belongs to.

N == 16
MaxFilterSize == 40

MemoryAlignments == {4, 8}
FilterBases == {0, 64}
FilterSizes == 0..MaxFilterSize

InitVector ==
    /\ scanner_pc = "idle"
    /\ filter_base = 0
    /\ filter_size = 0
    /\ memory_alignment = 4
    /\ compare_func = <<>>
    /\ vector_available = FALSE
    /\ scalar_available = FALSE
    /\ emitted_filters = <<>>
    /\ loads = {}

\* The vectorization plan is made over the bytes of the complete elements.
plan_vector_scan(size_in_bytes, data_type_size, memory_alignment_size) ==
    LET element_count == size_in_bytes \div data_type_size
        valid_bytes == element_count * memory_alignment_size
    IN  [vector_size_in_bytes |-> N,
         element_count |-> element_count,
         vectorizable_iterations |-> valid_bytes \div N,
         remainder_bytes |-> valid_bytes % N,
         remainder_ptr_offset |-> IF valid_bytes > N THEN valid_bytes - N ELSE 0]

SnapshotRegionFilterRunLengthEncoder(base_address) ==
    [current_address |-> base_address, run_length |-> 0, result_regions |-> <<>>]

encode_range(encoder, stride) == [encoder EXCEPT !.run_length = @ + stride]

finalize_current_encode(encoder, stride) ==
    IF encoder.run_length > 0
    THEN [current_address |-> encoder.current_address + encoder.run_length + stride,
          run_length |-> 0,
          result_regions |-> Append(encoder.result_regions,
                                    <<encoder.current_address, encoder.run_length>>)]
    ELSE [encoder EXCEPT !.current_address = @ + stride]

\* The lane mask of a vector compare at a byte offset of the filter. A lane past
\* the complete elements compares bytes that are not the filter's; the scanner
\* encodes no such lane, and the mask has FALSE there.
CompareVector(compare, alignment, offset) ==
    [byte_index \in 0..(N - 1) |->
        LET element == ((offset + byte_index) \div alignment) + 1
        IN  element <= Len(compare) /\ compare[element]]

StartByteIndexZero(remainder_bytes) == 0

StartByteIndex(remainder_bytes) == IF N > remainder_bytes THEN N - remainder_bytes ELSE 0

RECURSIVE EncodeLanes(_, _, _, _)
EncodeLanes(compare_result, encoder, alignment, byte_index) ==
    IF byte_index >= N THEN encoder
    ELSE EncodeLanes(compare_result,
                     IF compare_result[byte_index]
                     THEN encode_range(encoder, alignment)
                     ELSE finalize_current_encode(encoder, alignment),
                     alignment, byte_index + alignment)

encode_remainder_results(compare_result, encoder, alignment, remainder_bytes) ==
    EncodeLanes(compare_result, encoder, alignment, StartByteIndex(remainder_bytes))

encode_results_mixed_as_false(compare_result, encoder, alignment) ==
    IF \A byte_index \in 0..(N - 1) : compare_result[byte_index]
    THEN encode_range(encoder, N)
    ELSE finalize_current_encode(encoder, N)

encode_results(compare_result, encoder, alignment) ==
    IF \A byte_index \in 0..(N - 1) : compare_result[byte_index]
    THEN encode_range(encoder, N)
    ELSE IF \A byte_index \in 0..(N - 1) : ~compare_result[byte_index]
    THEN finalize_current_encode(encoder, N)
    ELSE encode_remainder_results(compare_result, encoder, alignment, N)

\* for index in 0..vectorizable_iterations
RECURSIVE VectorLoop(_, _, _, _, _)
VectorLoop(compare, alignment, encoder, index, vectorizable_iterations) ==
    IF index >= vectorizable_iterations THEN encoder
    ELSE VectorLoop(compare, alignment,
                    encode_results(CompareVector(compare, alignment, index * N), encoder, alignment),
                    index + 1, vectorizable_iterations)

\* Where the tail vector is loaded from.
TailLoadOffsetAfterFullVectors(plan) == plan.vectorizable_iterations * plan.vector_size_in_bytes

TailLoadOffset(plan) == plan.remainder_ptr_offset

\* for index in 0..element_count
RECURSIVE ScalarLoop(_, _, _, _, _)
ScalarLoop(compare, alignment, encoder, index, element_count) ==
    IF index >= element_count THEN encoder
    ELSE ScalarLoop(compare, alignment,
                    IF compare[index + 1]
                    THEN encode_range(encoder, alignment)
                    ELSE finalize_current_encode(encoder, alignment),
                    index + 1, element_count)

DidVectorScan(plan, has_vector) == plan.vectorizable_iterations > 0 /\ has_vector

scan_region(base_address, size_in_bytes, alignment, compare, has_vector, has_scalar) ==
    LET plan == plan_vector_scan(size_in_bytes, alignment, alignment)
        encoder == SnapshotRegionFilterRunLengthEncoder(base_address)
        scanned ==
            IF DidVectorScan(plan, has_vector)
            THEN LET full == VectorLoop(compare, alignment, encoder, 0,
                                        plan.vectorizable_iterations)
                 IN  IF plan.remainder_bytes > 0
                     THEN encode_remainder_results(
                              CompareVector(compare, alignment, TailLoadOffset(plan)),
                              full, alignment, plan.remainder_bytes)
                     ELSE full
            ELSE IF has_scalar
            THEN ScalarLoop(compare, alignment, encoder, 0, plan.element_count)
            ELSE encoder
    IN  finalize_current_encode(scanned, 0).result_regions

\* The byte ranges of the filter the call loads from the value buffers.
LoadedRanges(size_in_bytes, alignment, has_vector, has_scalar) ==
    LET plan == plan_vector_scan(size_in_bytes, alignment, alignment)
    IN  IF DidVectorScan(plan, has_vector)
        THEN {<<index * N, index * N + N>> : index \in 0..(plan.vectorizable_iterations - 1)}
             \cup (IF plan.remainder_bytes > 0
                   THEN {<<TailLoadOffset(plan), TailLoadOffset(plan) + N>>}
                   ELSE {})
        ELSE IF has_scalar
        THEN {<<index * alignment, index * alignment + alignment>> :
                 index \in 0..(plan.element_count - 1)}
        ELSE {}

VectorScanRegion(base_address, size_in_bytes, alignment, compare, has_vector, has_scalar) ==
    /\ scanner_pc = "idle"
    /\ scanner_pc' = "done"
    /\ filter_base' = base_address
    /\ filter_size' = size_in_bytes
    /\ memory_alignment' = alignment
    /\ compare_func' = compare
    /\ vector_available' = has_vector
    /\ scalar_available' = has_scalar
    /\ emitted_filters' = scan_region(base_address, size_in_bytes, alignment, compare,
                                      has_vector, has_scalar)
    /\ loads' = LoadedRanges(size_in_bytes, alignment, has_vector, has_scalar)
    /\ UNCHANGED nonVectorVars

NextVector ==
    /\ scanner_pc = "idle"
    /\ \E base_address \in FilterBases, size_in_bytes \in FilterSizes,
          alignment \in MemoryAlignments, has_vector \in BOOLEAN, has_scalar \in BOOLEAN :
          \E compare \in [1..(size_in_bytes \div alignment) -> BOOLEAN] :
             VectorScanRegion(base_address, size_in_bytes, alignment, compare, has_vector, has_scalar)

\* ------------------------------------------------------------ pointer scan
\* One pointer scan: the request executor starts the task, the task expands the
\* frontier level by level over the pointer map and writes its results to the
\* sink, and the executor's waiting thread publishes the sink. Addresses count
\* pointer-sized slots; the cap on the results is scaled down.

MAX_RESULTS == 9
MaxAddress == 3
MaxOffset == 1
MaxDepth == 3

SlotAddresses == 1..MaxAddress
PointerValues == 0..MaxAddress

InitPointer ==
    /\ pointer_pc = "idle"
    /\ pointer_map = [value \in PointerValues |-> <<>>]
    /\ target_address = 0
    /\ max_offset = 0
    /\ max_depth = 1
    /\ depth = 0
    /\ frontier = <<>>
    /\ next_frontier = <<>>
    /\ candidates = <<>>
    /\ visited = {}
    /\ found_results = <<>>
    /\ pointer_cancellation_token = FALSE
    /\ results_sink = <<>>
    /\ pointer_scan_results = <<>>
    /\ expanded_at_cap = FALSE
    /\ candidates_cut = FALSE
    /\ pointer_task_progress = <<0, 1>>
    /\ pointer_task_registered = FALSE

\* The map from each value read to the addresses it was read at.
collect_pointer_values(values_read) ==
    [value \in PointerValues |->
        Ascending({address \in SlotAddresses : values_read[address] = value})]

\* The request executor empties the published results and starts the task; the
\* task collects the values and seeds the frontier with the target.
PointerScanExecute(values_read, target, offset_size, depth_limit) ==
    /\ pointer_pc = "idle"
    /\ pointer_pc' = "depth"
    /\ pointer_map' = collect_pointer_values(values_read)
    /\ target_address' = target
    /\ max_offset' = offset_size
    /\ max_depth' = IF depth_limit > 1 THEN depth_limit ELSE 1
    /\ depth' = 0
    /\ frontier' = <<(<<target, <<>> >>)>>
    /\ next_frontier' = <<>>
    /\ candidates' = <<>>
    /\ visited' = {}
    /\ found_results' = <<>>
    /\ pointer_scan_results' = <<>>
    /\ pointer_task_registered' = TRUE
    /\ UNCHANGED <<nonPointerVars, pointer_task_progress, pointer_cancellation_token, results_sink,
                   expanded_at_cap, candidates_cut>>

PointerScanCancel ==
    /\ pointer_pc \in {"depth", "expand"}
    /\ ~pointer_cancellation_token
    /\ pointer_cancellation_token' = TRUE
    /\ UNCHANGED <<nonPointerVars, pointer_task_registered, pointer_task_progress, pointer_pc, pointer_map, target_address, max_offset,
                   max_depth, depth, frontier, next_frontier, candidates, visited,
                   found_results, results_sink, pointer_scan_results, expanded_at_cap,
                   candidates_cut>>

\* u64::saturating_sub
saturating_sub(a, b) == IF a > b THEN a - b ELSE 0

\* new_offsets: the offsets of the target with the new offset inserted at 0.
NewOffsetsReplacingFirst(offsets, offset) ==
    IF Len(offsets) = 0 THEN <<offset>> ELSE <<offset>> \o Tail(offsets)

NewOffsets(offsets, offset) == <<offset>> \o offsets

\* pointer_map.range(start..=end) of one target, flattened: each pointer address
\* with the offsets of the path through it.
RECURSIVE PointersInRange(_, _, _, _)
PointersInRange(map, value, end, entry) ==
    IF value > end \/ value \notin DOMAIN map THEN <<>>
    ELSE [i \in 1..Len(map[value]) |->
             <<map[value][i], NewOffsets(entry[2], saturating_sub(entry[1], value))>>]
         \o PointersInRange(map, value + 1, end, entry)

PointersTo(map, entry, offset_size) ==
    PointersInRange(map, saturating_sub(entry[1], offset_size), entry[1] + offset_size,
                    entry)

RECURSIVE CandidatesOf(_, _, _)
CandidatesOf(map, entries, offset_size) ==
    IF Len(entries) = 0 THEN <<>>
    ELSE PointersTo(map, Head(entries), offset_size)
         \o CandidatesOf(map, Tail(entries), offset_size)

\* for depth in 0..max_depth: the loop ends, or is left when cancelled, or a
\* level starts with an empty next_frontier.
DepthLoop ==
    /\ pointer_pc = "depth"
    /\ IF depth >= max_depth \/ pointer_cancellation_token
       THEN /\ pointer_pc' = "write_sink"
            /\ UNCHANGED <<next_frontier, candidates>>
       ELSE /\ pointer_pc' = "expand"
            /\ next_frontier' = <<>>
            /\ candidates' = CandidatesOf(pointer_map, frontier, max_offset)
    /\ UNCHANGED <<nonPointerVars, pointer_task_registered, pointer_task_progress, pointer_map, target_address, max_offset, max_depth,
                   depth, frontier, visited, found_results, pointer_cancellation_token,
                   results_sink, pointer_scan_results, expanded_at_cap, candidates_cut>>

HasRoomAtCap(len) == len <= MAX_RESULTS

HasRoom(len) == len < MAX_RESULTS

\* One pointer address of the level: push a result if there is room, leave the
\* three loops if the cap is reached, else push the address for the next level
\* unless it was visited at that level.
ExpandPointer ==
    /\ pointer_pc = "expand"
    /\ Len(candidates) > 0
    /\ LET pointer_address == Head(candidates)[1]
           new_offsets == Head(candidates)[2]
           pushed == IF HasRoom(Len(found_results))
                     THEN Append(found_results, <<pointer_address, new_offsets, depth + 1>>)
                     ELSE found_results
           key == <<pointer_address, depth + 1>>
       IN  /\ found_results' = pushed
           /\ IF Len(pushed) >= MAX_RESULTS
              THEN /\ candidates' = <<>>
                   /\ candidates_cut' = (candidates_cut \/ Len(candidates) > 1)
                   /\ UNCHANGED <<visited, next_frontier>>
                   /\ expanded_at_cap' =
                         (expanded_at_cap \/ (Len(found_results) >= MAX_RESULTS
                                               /\ pushed # found_results))
              ELSE /\ candidates' = Tail(candidates)
                   /\ visited' = visited \cup {key}
                   /\ next_frontier' = IF key \in visited THEN next_frontier
                                       ELSE Append(next_frontier,
                                                   <<pointer_address, new_offsets>>)
                   /\ expanded_at_cap' =
                         (expanded_at_cap \/ Len(found_results) >= MAX_RESULTS)
                   /\ UNCHANGED candidates_cut
    /\ UNCHANGED <<nonPointerVars, pointer_task_registered, pointer_task_progress, pointer_pc, pointer_map, target_address, max_offset,
                   max_depth, depth, frontier, pointer_cancellation_token, results_sink,
                   pointer_scan_results>>

\* The level is iterated: set the progress to ((depth + 1) / max_depth) * 100.0,
\* then stop on an empty next_frontier, else go one deeper.
EndLevel ==
    /\ pointer_pc = "expand"
    /\ Len(candidates) = 0
    /\ IF Len(next_frontier) = 0
       THEN /\ pointer_pc' = "write_sink"
            /\ UNCHANGED <<frontier, depth>>
       ELSE /\ pointer_pc' = "depth"
            /\ frontier' = next_frontier
            /\ depth' = depth + 1
    /\ pointer_task_progress' = <<(depth + 1) * 100, max_depth>>
    /\ UNCHANGED <<nonPointerVars, pointer_task_registered, pointer_map, target_address, max_offset, max_depth,
                   next_frontier, candidates, visited, found_results,
                   pointer_cancellation_token, results_sink, pointer_scan_results,
                   expanded_at_cap, candidates_cut>>

\* *sink = results, and the task completes.
WriteSink ==
    /\ pointer_pc = "write_sink"
    /\ pointer_pc' = "publish"
    /\ results_sink' = found_results
    /\ UNCHANGED <<nonPointerVars, pointer_task_registered, pointer_task_progress, pointer_map, target_address, max_offset, max_depth,
                   depth, frontier, next_frontier, candidates, visited, found_results,
                   pointer_cancellation_token, pointer_scan_results, expanded_at_cap,
                   candidates_cut>>

PublishResultsKeepingTask ==
    /\ pointer_pc = "publish"
    /\ pointer_pc' = "done"
    /\ pointer_scan_results' = results_sink
    /\ UNCHANGED <<nonPointerVars, pointer_task_registered, pointer_task_progress, pointer_map,
                   target_address, max_offset, max_depth, depth, frontier, next_frontier,
                   candidates, visited, found_results, pointer_cancellation_token,
                   results_sink, expanded_at_cap, candidates_cut>>

\* The waiting thread of the request executor: wait_for_completion,
\* unregister_task, then the sink is published.
PublishResults ==
    /\ pointer_pc = "publish"
    /\ pointer_pc' = "done"
    /\ pointer_scan_results' = results_sink
    /\ pointer_task_registered' = FALSE
    /\ UNCHANGED <<nonPointerVars, pointer_task_progress, pointer_map, target_address, max_offset, max_depth,
                   depth, frontier, next_frontier, candidates, visited, found_results,
                   pointer_cancellation_token, results_sink, expanded_at_cap,
                   candidates_cut>>

NextPointer ==
    \/ /\ pointer_pc = "idle"
       /\ \E values_read \in [SlotAddresses -> PointerValues], target \in SlotAddresses,
             offset_size \in 0..MaxOffset, depth_limit \in 0..MaxDepth :
             PointerScanExecute(values_read, target, offset_size, depth_limit)
    \/ PointerScanCancel
    \/ DepthLoop
    \/ ExpandPointer
    \/ EndLevel
    \/ WriteSink
    \/ PublishResults

\* ------------------------------------------- element scan request: the plan

MaxDataTypes == 2
MaxConstraints == 1

\* The values of MemoryAlignment.
Alignments == {1, 2, 4, 8, 16}

\* The unit sizes of the data types requested.
UnitSizes == {1, 2, 4, 8}

InitPlan ==
    /\ plan_pc = "idle"
    /\ opened_process = FALSE
    /\ region_count = 0
    /\ explicit_alignment = 0
    /\ fast_scan_enabled = FALSE
    /\ fast_scan_alignment = 0
    /\ fast_scan_last_digits = FALSE
    /\ unit_sizes = <<>>
    /\ constraint_counts = <<>>
    /\ plan_alignment = 0
    /\ trackable_task_handle = FALSE
    /\ plan_task_started = FALSE
    /\ plan_task_registered = FALSE
    /\ plan_region_count = 0

\* MemoryAlignment::from of a size in bytes.
MemoryAlignmentFrom(size) == IF size \in Alignments THEN size ELSE 1

\* The loop over the data types: whether a later unit size differs from the first.
mixed_sizes(sizes) == \E i \in 1..Len(sizes) : sizes[i] # sizes[1]

UnitSizeAlignmentOfFirst(sizes) ==
    IF Len(sizes) = 0 THEN 1 ELSE MemoryAlignmentFrom(sizes[1])

\* The alignment taken from the data types: their unit size when they agree.
UnitSizeAlignment(sizes) ==
    IF mixed_sizes(sizes) THEN 1
    ELSE IF Len(sizes) = 0 THEN 1
    ELSE MemoryAlignmentFrom(sizes[1])

\* The alignment of the scan plan.
ChooseAlignment(explicit, enabled, fast_alignment, last_digits, sizes) ==
    IF explicit # 0 THEN explicit
    ELSE IF enabled
         THEN IF fast_alignment # 0 THEN fast_alignment
              ELSE IF last_digits THEN 16
              ELSE UnitSizeAlignment(sizes)
         ELSE 1

AnyConstraintsEmpty(counts) == \E i \in 1..Len(counts) : counts[i] = 0

\* No data type is left with a constraint.
AllConstraintsEmpty(counts) == \A i \in 1..Len(counts) : counts[i] = 0

\* ElementScanRequest::execute, from the request to its response.
ElementScanRequestExecute(process, regions, explicit, enabled, fast_alignment, last_digits, sizes, counts) ==
    /\ plan_pc = "idle"
    /\ plan_pc' = "done"
    /\ opened_process' = process
    /\ region_count' = regions
    /\ plan_region_count' = regions
    /\ explicit_alignment' = explicit
    /\ fast_scan_enabled' = enabled
    /\ fast_scan_alignment' = fast_alignment
    /\ fast_scan_last_digits' = last_digits
    /\ unit_sizes' = sizes
    /\ constraint_counts' = counts
    /\ IF ~process \/ regions = 0
       THEN /\ plan_alignment' = 0
            /\ trackable_task_handle' = FALSE
            /\ plan_task_started' = FALSE
            /\ plan_task_registered' = FALSE
       ELSE /\ plan_alignment' = ChooseAlignment(explicit, enabled, fast_alignment, last_digits, sizes)
            /\ IF AllConstraintsEmpty(counts)
               THEN /\ trackable_task_handle' = FALSE
                    /\ plan_task_started' = FALSE
                    /\ plan_task_registered' = FALSE
               ELSE /\ trackable_task_handle' = TRUE
                    /\ plan_task_started' = TRUE
                    /\ plan_task_registered' = TRUE
    /\ UNCHANGED nonPlanVars

NextPlan ==
    /\ plan_pc = "idle"
    /\ \E process \in BOOLEAN, regions \in 0..1, explicit \in {0} \cup Alignments,
          enabled \in BOOLEAN, fast_alignment \in {0} \cup Alignments, last_digits \in BOOLEAN,
          n \in 0..MaxDataTypes :
          \E sizes \in [1..n -> UnitSizes], counts \in [1..n -> 0..MaxConstraints] :
             ElementScanRequestExecute(process, regions, explicit, enabled, fast_alignment,
                                       last_digits, sizes, counts)

\* ------------------------------------------------------- memory queryer

MaxPages == 2
MaxPageSize == 2

\* The snapshot cap, scaled to the page sizes of the model.
MAX_SCAN_SNAPSHOT_BYTES == 3

ProtectionFlags == {"WRITE", "EXECUTE"}
MemoryTypes == {"PRIVATE", "MAPPED"}

\* A usermode page the OS reports: its size, protection and type, whether it
\* lies within the address range of the settings, and whether it belongs to
\* a module other than the main one.
Pages == [size : 1..MaxPageSize, protection : SUBSET ProtectionFlags, type : MemoryTypes,
          in_settings_range : BOOLEAN, in_other_module : BOOLEAN]

InitQuery ==
    /\ query_pc = "idle"
    /\ virtual_pages = <<>>
    /\ required_page_flags = {}
    /\ excluded_page_flags = {}
    /\ allowed_type_flags = {}
    /\ only_query_usermode = FALSE
    /\ only_main_module_image = FALSE
    /\ normalized_regions = <<>>

\* The pages as regions, in address order.
RegionsOf(pages) == [i \in 1..Len(pages) |-> <<i, pages[i].size>>]

\* get_virtual_pages with RegionBoundsHandling::Exclude: a page is admitted
\* iff its protection has all the required flags and none of the excluded
\* ones, its type is allowed and it lies within the range.
get_virtual_pages(pages, required, excluded, allowed, usermode_range) ==
    LET Admitted(region) ==
            LET page == pages[region[1]] IN
            /\ required \subseteq page.protection
            /\ excluded \cap page.protection = {}
            /\ page.type \in allowed
            /\ usermode_range \/ page.in_settings_range
    IN SelectSeq(RegionsOf(pages), Admitted)

query_pages_from_usermode_memory(pages) ==
    get_virtual_pages(pages, {}, {}, MemoryTypes, TRUE)

query_pages_from_usermode_writable(pages, allowed) ==
    get_virtual_pages(pages, {"WRITE"}, {}, allowed, TRUE)

RECURSIVE SizeInBytes(_)
\* The sum of the region sizes.
SizeInBytes(regions) ==
    IF regions = <<>> THEN 0 ELSE Head(regions)[2] + SizeInBytes(Tail(regions))

RECURSIVE TrimmedFrom(_, _, _)
\* The loop of truncate_regions_to_max, total bytes being kept already.
TrimmedFrom(regions, total, max_bytes) ==
    IF regions = <<>> \/ total >= max_bytes THEN <<>>
    ELSE LET size == Head(regions)[2]
             remaining == max_bytes - total
         IN IF size <= remaining
            THEN <<Head(regions)>> \o TrimmedFrom(Tail(regions), total + size, max_bytes)
            ELSE <<<<Head(regions)[1], remaining>>>>

truncate_regions_to_max(regions, max_bytes) ==
    IF max_bytes = 0 THEN <<>> ELSE TrimmedFrom(regions, 0, max_bytes)

\* The retain of only_main_module_image: drops the regions of other modules.
RetainMainModule(pages, regions) ==
    LET Retained(region) == ~pages[region[1]].in_other_module
    IN SelectSeq(regions, Retained)

\* The regions a FromSettings query returns.
query_pages_from_settings(pages, required, excluded, allowed, usermode_only, main_module_only) ==
    LET queried == get_virtual_pages(pages, required, excluded, allowed, usermode_only)
        regions == IF main_module_only THEN RetainMainModule(pages, queried) ELSE queried
        total_size_in_bytes == SizeInBytes(regions)
        relaxed_regions == get_virtual_pages(pages, {}, excluded, allowed, usermode_only)
        fallback_regions == query_pages_from_usermode_writable(pages, MemoryTypes)
        private_only_regions == query_pages_from_usermode_writable(pages, {"PRIVATE"})
    IN IF total_size_in_bytes = 0
       THEN IF SizeInBytes(relaxed_regions) > 0 THEN relaxed_regions
            ELSE IF fallback_regions = <<>> THEN query_pages_from_usermode_memory(pages)
            ELSE fallback_regions
       ELSE IF total_size_in_bytes > MAX_SCAN_SNAPSHOT_BYTES
       THEN IF SizeInBytes(fallback_regions) > MAX_SCAN_SNAPSHOT_BYTES
            THEN IF SizeInBytes(private_only_regions) > MAX_SCAN_SNAPSHOT_BYTES
                 THEN truncate_regions_to_max(private_only_regions, MAX_SCAN_SNAPSHOT_BYTES)
                 ELSE private_only_regions
            ELSE IF fallback_regions = <<>> THEN query_pages_from_usermode_memory(pages)
            ELSE fallback_regions
       ELSE regions

\* get_memory_page_bounds with PageRetrievalMode::FromSettings.
QueryPagesFromSettings(pages, required, excluded, allowed, usermode_only, main_module_only) ==
    /\ query_pc = "idle"
    /\ query_pc' = "done"
    /\ virtual_pages' = pages
    /\ required_page_flags' = required
    /\ excluded_page_flags' = excluded
    /\ allowed_type_flags' = allowed
    /\ only_query_usermode' = usermode_only
    /\ only_main_module_image' = main_module_only
    /\ normalized_regions' = query_pages_from_settings(pages, required, excluded, allowed,
                                                       usermode_only, main_module_only)
    /\ UNCHANGED nonQueryVars

NextQuery ==
    /\ query_pc = "idle"
    /\ \E n \in 0..MaxPages :
          \E pages \in [1..n -> Pages], required \in SUBSET ProtectionFlags,
             excluded \in SUBSET {"WRITE"}, allowed \in SUBSET MemoryTypes,
             usermode_only \in BOOLEAN, main_module_only \in BOOLEAN :
             QueryPagesFromSettings(pages, required, excluded, allowed, usermode_only,
                                    main_module_only)

\* ------------------------------------------------------- scan settings

NumSetters == 2
MaxSetterCalls == 3

\* The threads calling setters of ScanSettingsConfig.
Setters == 1..NumSetters

\* The fields of ScanSettings set in the model.
Fields == {"scan_buffer_kb", "thread_priority"}

\* The values a setter is called with.
FieldValues(field) ==
    IF field = "scan_buffer_kb" THEN {32, 128} ELSE {"AboveNormal", "Highest"}

InitSettings ==
    /\ config = [scan_buffer_kb |-> 2048, thread_priority |-> "Normal"]
    /\ config_file = <<>>
    /\ config_readers = {}
    /\ setter_pc = [th \in Setters |-> "idle"]
    /\ json = [th \in Setters |-> <<>>]
    /\ setter_calls = 0
    /\ last_set = [th \in Setters |-> <<>>]
    /\ file_at_return = [th \in Setters |-> <<>>]
    /\ setters_returned = [th \in Setters |-> 0]
    /\ write_failed = FALSE

\* serde_json::to_string_pretty of the settings: the fields in the order of
\* the struct, each with its name and its value.
to_string_pretty(settings) ==
    <<(<<"scan_buffer_kb", settings.scan_buffer_kb>>),
      (<<"thread_priority", settings.thread_priority>>)>>

\* The value a setter stores: set_scan_buffer_kb stores value.max(64).
StoredValue(field, value) ==
    IF field = "scan_buffer_kb" THEN (IF value > 64 THEN value ELSE 64) ELSE value

WriteGuardAnytime == TRUE

\* config.write() is granted: no read guard is held (a write guard is held
\* for the assignment only).
WriteGuardGranted == config_readers = {}

\* A setter, up to the drop of its write guard: set_scan_buffer_kb or
\* set_thread_priority.
SetterWrite(th, field, value) ==
    /\ setter_pc[th] = "idle"
    /\ setter_calls < MaxSetterCalls
    /\ WriteGuardGranted
    /\ config' = [config EXCEPT ![field] = StoredValue(field, value)]
    /\ last_set' = [last_set EXCEPT ![th] = <<field, StoredValue(field, value)>>]
    /\ setter_calls' = setter_calls + 1
    /\ setter_pc' = [setter_pc EXCEPT ![th] = "save"]
    /\ UNCHANGED <<nonSettingsVars, config_file, config_readers, json, file_at_return,
                   setters_returned, write_failed>>

\* save_config: takes the read guard and serializes the settings.
SaveConfigSerialize(th) ==
    /\ setter_pc[th] = "save"
    /\ config_readers' = config_readers \cup {th}
    /\ json' = [json EXCEPT ![th] = to_string_pretty(config)]
    /\ setter_pc' = [setter_pc EXCEPT ![th] = "create"]
    /\ UNCHANGED <<nonSettingsVars, config, config_file, setter_calls, last_set,
                   file_at_return, setters_returned, write_failed>>

\* fs::write, first half: the file is created or truncated; an error is ignored.
SaveConfigCreate(th, created) ==
    /\ setter_pc[th] = "create"
    /\ IF created
       THEN /\ config_file' = <<>>
            /\ setter_pc' = [setter_pc EXCEPT ![th] = "write_all"]
            /\ UNCHANGED write_failed
       ELSE /\ write_failed' = TRUE
            /\ setter_pc' = [setter_pc EXCEPT ![th] = "drop"]
            /\ UNCHANGED config_file
    /\ UNCHANGED <<nonSettingsVars, config, config_readers, json, setter_calls, last_set,
                   file_at_return, setters_returned>>

\* fs::write, second half: the text is written.
SaveConfigWriteAll(th) ==
    /\ setter_pc[th] = "write_all"
    /\ config_file' = json[th]
    /\ setter_pc' = [setter_pc EXCEPT ![th] = "drop"]
    /\ UNCHANGED <<nonSettingsVars, config, config_readers, json, setter_calls, last_set,
                   file_at_return, setters_returned, write_failed>>

\* save_config drops the read guard and the setter returns.
SetterReturn(th) ==
    /\ setter_pc[th] = "drop"
    /\ config_readers' = config_readers \ {th}
    /\ setter_pc' = [setter_pc EXCEPT ![th] = "idle"]
    /\ file_at_return' = [file_at_return EXCEPT ![th] = config_file]
    /\ setters_returned' = [setters_returned EXCEPT ![th] = @ + 1]
    /\ UNCHANGED <<nonSettingsVars, config, config_file, json, setter_calls, last_set,
                   write_failed>>

NextSettings ==
    \/ \E th \in Setters, field \in Fields : \E value \in FieldValues(field) :
          SetterWrite(th, field, value)
    \/ \E th \in Setters : SaveConfigSerialize(th)
    \/ \E th \in Setters, created \in BOOLEAN : SaveConfigCreate(th, created)
    \/ \E th \in Setters : SaveConfigWriteAll(th)
    \/ \E th \in Setters : SetterReturn(th)

\* ------------------------------------- dependency: writer mutex per type

MaxLookups == 4

\* The dependency types looked up.
DependencyTypes == {"DepA", "DepB"}

InitLookup ==
    /\ write_mutexes_initialized = FALSE
    /\ write_mutexes = [type \in DependencyTypes |-> 0]
    /\ write_mutexes_lock = 0
    /\ leaked_mutexes = 0
    /\ lookup_pc = [w \in Writers |-> "idle"]
    /\ lookup_type = [w \in Writers |-> "DepA"]
    /\ lookup_mutex = [w \in Writers |-> 0]
    /\ lookups_made = 0
    /\ lookups_returned = {}

\* A thread calls get_write_mutex_for_type of Dependency<type>.
LookupCall(w, type) ==
    /\ lookup_pc[w] = "idle"
    /\ lookups_made < MaxLookups
    /\ lookups_made' = lookups_made + 1
    /\ lookup_type' = [lookup_type EXCEPT ![w] = type]
    /\ lookup_mutex' = [lookup_mutex EXCEPT ![w] = 0]
    /\ lookup_pc' = [lookup_pc EXCEPT ![w] = "get"]
    /\ UNCHANGED <<nonLookupVars, write_mutexes_initialized, write_mutexes, write_mutexes_lock,
                   leaked_mutexes, lookups_returned>>

\* WRITE_MUTEXES.get_or_init: the first caller stores an empty map.
GetOrInit(w) ==
    /\ lookup_pc[w] = "get"
    /\ write_mutexes_initialized' = TRUE
    /\ write_mutexes' = IF write_mutexes_initialized THEN write_mutexes
                        ELSE [type \in DependencyTypes |-> 0]
    /\ lookup_pc' = [lookup_pc EXCEPT ![w] = "lock"]
    /\ UNCHANGED <<nonLookupVars, write_mutexes_lock, leaked_mutexes, lookup_type,
                   lookup_mutex, lookups_made, lookups_returned>>

\* write_mutexes.lock(), a poisoned lock being taken all the same.
LockMap(w) ==
    /\ lookup_pc[w] = "lock"
    /\ write_mutexes_lock = 0
    /\ write_mutexes_lock' = w
    /\ lookup_pc' = [lookup_pc EXCEPT ![w] = "entry"]
    /\ UNCHANGED <<nonLookupVars, write_mutexes_initialized, write_mutexes, leaked_mutexes,
                   lookup_type, lookup_mutex, lookups_made, lookups_returned>>

insert_fresh(map, type, fresh) == [map EXCEPT ![type] = fresh]

\* map.entry(type).or_insert_with(fresh): the map after the call.
or_insert_with(map, type, fresh) ==
    IF map[type] # 0 THEN map ELSE [map EXCEPT ![type] = fresh]

\* The entry of the type is read, a mutex being leaked for it if it has none.
EntryOrInsert(w) ==
    /\ lookup_pc[w] = "entry"
    /\ LET fresh == leaked_mutexes + 1
           map == or_insert_with(write_mutexes, lookup_type[w], fresh)
       IN /\ write_mutexes' = map
          /\ leaked_mutexes' = IF map[lookup_type[w]] = fresh THEN fresh ELSE leaked_mutexes
          /\ lookup_mutex' = [lookup_mutex EXCEPT ![w] = map[lookup_type[w]]]
    /\ lookup_pc' = [lookup_pc EXCEPT ![w] = "unlock"]
    /\ UNCHANGED <<nonLookupVars, write_mutexes_initialized, write_mutexes_lock, lookup_type,
                   lookups_made, lookups_returned>>

\* The guard of the map is dropped and write_mutex returned.
LookupReturn(w) ==
    /\ lookup_pc[w] = "unlock"
    /\ write_mutexes_lock' = 0
    /\ lookups_returned' = lookups_returned \cup {<<lookup_type[w], lookup_mutex[w]>>}
    /\ lookup_pc' = [lookup_pc EXCEPT ![w] = "idle"]
    /\ UNCHANGED <<nonLookupVars, write_mutexes_initialized, write_mutexes, leaked_mutexes,
                   lookup_type, lookup_mutex, lookups_made>>

NextLookup ==
    \/ \E w \in Writers, type \in DependencyTypes : LookupCall(w, type)
    \/ \E w \in Writers : GetOrInit(w)
    \/ \E w \in Writers : LockMap(w)
    \/ \E w \in Writers : EntryOrInsert(w)
    \/ \E w \in Writers : LookupReturn(w)

\* ---------------------------------------------------------- specifications

Init == InitScan /\ InitDep /\ InitView /\ InitRead /\ InitVector /\ InitPointer /\ InitPlan /\ InitQuery /\ InitSettings /\ InitLookup

SpecScan == Init /\ [][NextScan]_vars

\* The steps of task t's threads (the task, the collector it waits for, the
\* waiter): each is a running thread, so it is scheduled again and again.
TaskStep(t) ==
    \/ CollectLockForTake(t) \/ CollectTakeRegions(t)
    \/ \E i \in RegionIds, read_ok \in BOOLEAN : CollectRegion(t, i, read_ok)
    \/ CollectLockForStore(t) \/ CollectStoreBack(t)
    \/ ScanLockForTake(t) \/ ScanTakeRegions(t)
    \/ \E i \in RegionIds, read_ok \in BOOLEAN, results \in {"matches", "empty"} :
          ScanRegion(t, i, read_ok, results)
    \/ ScanLockForStore(t) \/ ScanStoreBack(t)
    \/ WaiterEmit(t)

FairSpecScan == SpecScan /\ \A t \in Tasks : WF_vars(TaskStep(t))

SpecDep == Init /\ [][NextDep]_vars

SpecView == Init /\ [][NextView]_vars

SpecRead == Init /\ [][NextRead]_vars

SpecVector == Init /\ [][NextVector]_vars

SpecPointer == Init /\ [][NextPointer]_vars

SpecPlan == Init /\ [][NextPlan]_vars

SpecQuery == Init /\ [][NextQuery]_vars

SpecSettings == Init /\ [][NextSettings]_vars

SpecLookup == Init /\ [][NextLookup]_vars

\* The steps of the pointer scan's threads: the task, then the waiter.
PointerTaskStep == DepthLoop \/ ExpandPointer \/ EndLevel \/ WriteSink \/ PublishResults

\* The engine serving element scans or a pointer scan: the two kinds of task
\* share no state, so a behaviour runs one kind.
NextTasks ==
    \/ pointer_pc = "idle" /\ NextScan
    \/ InitScan /\ NextPointer

FairSpecTasks ==
    /\ Init
    /\ [][NextTasks]_vars
    /\ \A t \in Tasks : WF_vars(TaskStep(t))
    /\ WF_vars(PointerTaskStep)

\* ------------------------------------------------------- engine: claims

\* The request of slot t returned a task handle.
HandleReturned(t) == task_kind[t] = "scan" /\ task_pc[t] \notin {"idle", "refused"}

\* C1 (as claimed): once a cancelled element scan task has ended, the snapshot
\* holds what it held before the pass: the pass has changed no region.
C1_CancelledScanPublishesNoDelta ==
    \A t \in Tasks :
        (task_kind[t] = "scan" /\ task_pc[t] = "done" /\ cancellation_token[t])
            => ~changed_regions[t]

\* C2: a task holds the snapshot write lock only in its take-out block and in
\* its put-back block, never while it reads memory or runs a scanner on a region.
C2_WriteLockOnlyForTakeAndStore ==
    \A t \in Tasks :
        /\ snapshot_lock = t =>
               task_pc[t] \in {"collect_take", "collect_store", "scan_take", "scan_store"}
        /\ task_pc[t] \in {"collect_work", "scan_work"} => snapshot_lock # t

\* C2 witness: a scan task has worked on a region, off-lock, while another
\* task holds the write lock.
C2_Witness ==
    \E t \in Tasks :
        /\ task_pc[t] = "scan_work"
        /\ unvisited[t] # DOMAIN snapshot_regions[t]
        /\ snapshot_lock \notin {0, t}

\* C8 (as claimed): a scan task never takes out and scans a snapshot of zero
\* regions, and a refused ElementScan request starts, registers and awaits no task.
C8_NeverScansEmptySnapshot ==
    \A t \in Tasks :
        /\ (task_kind[t] = "scan" /\ task_pc[t] \in {"scan_work", "scan_store"})
               => Len(snapshot_regions[t]) > 0
        /\ task_pc[t] = "refused" => (t \notin registered /\ waiter_pc[t] = "none")

\* C9 (as claimed): while a scan pass works on the regions it took out, a reader
\* that can take the read lock sees the complete snapshot from before the
\* pass, so every region the pass holds.
C9_ReadersSeeCompleteSnapshot ==
    \A t \in Tasks :
        (task_kind[t] = "scan" /\ task_pc[t] = "scan_work" /\ snapshot_lock = 0)
            => \A i \in DOMAIN snapshot_regions[t] :
                   \E j \in DOMAIN snapshot : snapshot[j].id = snapshot_regions[t][i].id

\* C10: a request that returned a task handle is eventually followed by its one
\* ScanResultsUpdated { is_new_scan: false } event, which from then on stays the
\* only one; the event is emitted only once the task has stored its regions
\* back and ended; a refused request and a value collection emit none.
C10_OneEventAfterStoreBack ==
    /\ [](\A t \in Tasks :
            /\ events[t] <= 1
            /\ events[t] = 1 => (task_kind[t] = "scan" /\ task_pc[t] = "done")
            /\ ~HandleReturned(t) => events[t] = 0)
    /\ \A t \in Tasks : HandleReturned(t) ~> [](events[t] = 1)

\* C10 witness: one request was refused and another has had its event, after a
\* cancel.
C10_Witness ==
    \E t, u \in Tasks :
        /\ events[t] = 1 /\ cancellation_token[t]
        /\ task_pc[u] = "refused"

\* ------------------------------------------- dependency container: claims

\* C3: no update is lost. A live guard's draft holds every mutation of the
\* published value, because it was taken from the ArcSwap under the writer
\* mutex; and every mutation that was in a draft when the draft was stored is
\* in the published value from then on.
C3_NoLostUpdate ==
    /\ \A w \in Writers :
           guard_pc[w] = "live" =>
               /\ write_mutex = w
               /\ heap[shared_lock] \subseteq heap[uncomitted_value_ref[w]]
    /\ stored_mutations \subseteq heap[shared_lock]

\* C3 witness: every writer has mutated, stored and dropped its guard, and the
\* published value holds a mutation of each of them.
C3_Witness ==
    /\ \A w \in Writers : guard_pc[w] = "dropped"
    /\ \A w \in Writers : <<w, 1>> \in heap[shared_lock]

\* C4: at most one write guard of the dependency type is live, and it is held by
\* the owner of the writer mutex.
C4_AtMostOneLiveGuard ==
    \A v, w \in Writers :
        (guard_pc[v] = "live" /\ guard_pc[w] = "live") => (v = w /\ write_mutex = v)

\* C4 witness: one writer holds a guard it has mutated through while try_write
\* has returned None to another.
C4_Witness ==
    \E v, w \in Writers :
        /\ guard_pc[v] = "live" /\ mutations[v] > 0
        /\ guard_pc[w] = "try_failed"

\* C5: the value the ArcSwap holds is the value last stored in it, as it was
\* stored (at first the registered value), so a draft under mutation is never
\* visible; the value a reader holds is such a value and is the value its read
\* returned, unchanged; and a read is possible whoever holds the writer mutex.
C5_ReadersSeeOldOrNew ==
    /\ heap[shared_lock] = last_stored
    /\ \A r \in Readers :
           /\ reader_guard[r] # 0 =>
                  (read_stored[r] /\ heap[reader_guard[r]] = read_value[r])
           /\ reader_guard[r] = 0 => ENABLED Read(r)

\* C5 witness: a reader holds the value published before, while a writer that
\* has committed a newer value is mutating its draft again.
C5_Witness ==
    \E r \in Readers, w \in Writers :
        /\ reader_guard[r] # 0
        /\ read_value[r] # heap[shared_lock]
        /\ guard_pc[w] = "live" /\ committed[w]
        /\ heap[uncomitted_value_ref[w]] # heap[shared_lock]

\* C6 (as claimed): once a guard on which abort was never called has been
\* dropped, the published value was the guard's draft as it stood at the drop.
C6_DropPublishesDraft ==
    \A w \in Writers :
        guard_pc[w] = "dropped" => ~drop_lost_draft[w]

\* --------------------------------------------- element scanner view: claims

\* C7 (as claimed): when the timeout thread of a pass has run and the pass was
\* incomplete at the expiry, a cancel was sent for the task of the pass and
\* "Scan timed out." was reported.
C7_TimeoutCancelsAndReports ==
    \A p \in Passes :
        (timeout_pc[p] = "done" /\ incomplete_at_expiry[p])
            => (cancel_requested[p] /\ timed_out_reported[p])

\* C11 (as claimed): whenever the UI cancels while a pass is in progress, a
\* cancel request has been issued for the task of that pass.
C11_UiCancelReachesTask ==
    \A p \in Passes : ui_cancel[p] => cancel_requested[p]

\* C12 (as claimed): an Escape frame that finds a task id set leaves the view
\* with no task id, progress 0, NoResults and "Scan canceled.".
C12_EscapeResetsView ==
    [][(scan_task_id # 0 /\ cancel_scan) =>
          /\ scan_task_id' = 0
          /\ scan_progress' = "zero"
          /\ view_state' = "NoResults"
          /\ last_error_message' = "Scan canceled."]_vars

\* C13: a region the snapshot keeps (one not marked unreadable) has
\* current_values of the region's size or empty, and previous_values likewise,
\* after any sequence of reads, whatever slices of them failed.
C13_BufferLengths ==
    region_size > 0 =>
        /\ Len(current_values) \in {0, region_size}
        /\ Len(previous_values) \in {0, region_size}

\* C13 witness: a region of more than one block has been read three times, a
\* read with a failed slice among them, and both buffers have the region's size.
C13_Witness ==
    /\ region_size > 1
    /\ read_count = MaxReads
    /\ page_boundary_tombstones # {}
    /\ Len(current_values) = region_size
    /\ Len(previous_values) = region_size

AllSlicesRead == \A k \in 1..Len(slice_results) : slice_results[k]

FilledByLastRead == \A i \in 1..Len(current_values) : current_values[i] = read_count

C15_ErrIffEverySliceFailed ==
    read_count > 0 =>
        (read_result = "Err" <=> \A k \in 1..Len(slice_results) : ~slice_results[k])

\* C15 witness: a read of a region with a page boundary returned Ok although a
\* slice of it failed.
C15_Witness ==
    /\ read_result = "Ok"
    /\ page_boundaries # {}
    /\ \E k \in 1..Len(slice_results) : ~slice_results[k]

\* C16 (as claimed): when the scanner has run on a region with a relative or
\* delta predicate, in the first pass as in any later one, both value buffers
\* have the region's size.
C16_RelativeScanHasBothBuffers ==
    (relative_scan_read > 0 /\ relative_scan_read = read_count) =>
        /\ Len(current_values) = region_size
        /\ Len(previous_values) = region_size

Emitted == {emitted_filters[i] : i \in 1..Len(emitted_filters)}

CompleteElements == filter_size \div memory_alignment

\* The comparator of the path the scanner took exists.
Compared ==
    /\ scanner_pc = "done"
    /\ \/ DidVectorScan(plan_vector_scan(filter_size, memory_alignment, memory_alignment),
                        vector_available)
       \/ scalar_available

TailVectorUsed ==
    /\ DidVectorScan(plan_vector_scan(filter_size, memory_alignment, memory_alignment),
                     vector_available)
    /\ plan_vector_scan(filter_size, memory_alignment, memory_alignment).remainder_bytes > 0

\* C17: the emitted filters are not empty, lie within the source filter
\* [base, base + size), and each starts past the end of the one before it, so
\* that they are pairwise disjoint and strictly increasing by base.
C17_EmittedWithinDisjointOrdered ==
    /\ \A i \in 1..Len(emitted_filters) :
          /\ emitted_filters[i][2] > 0
          /\ filter_base <= emitted_filters[i][1]
          /\ emitted_filters[i][1] + emitted_filters[i][2] <= filter_base + filter_size
    /\ \A i \in 1..(Len(emitted_filters) - 1) :
          emitted_filters[i][1] + emitted_filters[i][2] < emitted_filters[i + 1][1]

\* C17 witness: a scan that used the overlapping tail vector emitted three
\* filters, the last of which ends with the last complete element.
C17_Witness ==
    /\ TailVectorUsed
    /\ Len(emitted_filters) = 3
    /\ emitted_filters[3][1] + emitted_filters[3][2] =
          filter_base + CompleteElements * memory_alignment

\* C18: the scanner is exact. The address of a complete element lies in exactly
\* one emitted filter when the comparator returns true for the element and in
\* none when it returns false, and the filters hold whole elements.
C18_ScannerExact ==
    Compared =>
        /\ \A k \in 0..(CompleteElements - 1) :
              Cardinality({f \in Emitted :
                              /\ f[1] <= filter_base + k * memory_alignment
                              /\ filter_base + k * memory_alignment < f[1] + f[2]})
                 = IF compare_func[k + 1] THEN 1 ELSE 0
        /\ \A f \in Emitted :
              /\ (f[1] - filter_base) % memory_alignment = 0
              /\ f[2] % memory_alignment = 0

\* C18 witness: a filter of two full vectors and a tail, with a vector of mixed
\* results, an element of the tail vector that matches and one that does not.
C18_Witness ==
    /\ TailVectorUsed
    /\ filter_size > 2 * N
    /\ filter_size % N # 0
    /\ \E k \in 1..(N \div memory_alignment) : compare_func[k]
    /\ \E k \in 1..(N \div memory_alignment) : ~compare_func[k]
    /\ compare_func[CompleteElements]
    /\ ~compare_func[CompleteElements - 1]

RECURSIVE TotalSize(_)
TotalSize(filters) ==
    IF Len(filters) = 0 THEN 0 ELSE Head(filters)[2] + TotalSize(Tail(filters))

\* C19: whatever the filter size and the comparator, every load lies within the
\* filter's bytes, the emitted sizes sum to at most floor(S / unit) * alignment,
\* and no emitted filter reaches base + floor(S / unit) * alignment or beyond.
C19_NoOverreadNoTrailingBytes ==
    /\ \A load \in loads : 0 <= load[1] /\ load[2] <= filter_size
    /\ TotalSize(emitted_filters) <= CompleteElements * memory_alignment
    /\ \A f \in Emitted : f[1] + f[2] <= filter_base + CompleteElements * memory_alignment

\* C19 witness: the filter of 20 bytes scanned for u64 values that all match, of
\* which the last 4 bytes hold no complete element: one filter of 16 bytes.
C19_Witness ==
    /\ Compared
    /\ vector_available
    /\ filter_size = 20
    /\ memory_alignment = 8
    /\ \A k \in 1..Len(compare_func) : compare_func[k]
    /\ emitted_filters = <<(<<filter_base, 16>>)>>

\* C20: the task never holds, writes to the sink or publishes more results than
\* the cap, and with the cap reached it pushes no result and no target more.
C20_ResultsCapped ==
    /\ Len(found_results) <= MAX_RESULTS
    /\ Len(results_sink) <= MAX_RESULTS
    /\ Len(pointer_scan_results) <= MAX_RESULTS
    /\ ~expanded_at_cap

\* C20 witness: a scan that reached the cap with pointer addresses still to
\* iterate has published exactly the cap.
C20_Witness ==
    /\ pointer_pc = "done"
    /\ candidates_cut
    /\ Len(pointer_scan_results) = MAX_RESULTS
    /\ ~pointer_cancellation_token

\* The pointer value the scan read at an address.
ValueAt(address) == CHOOSE value \in DOMAIN pointer_map :
                        \E i \in 1..Len(pointer_map[value]) : pointer_map[value][i] = address

\* Where the chain ends: read the pointer at the address, add the next offset.
RECURSIVE WalkChain(_, _)
WalkChain(address, offsets) ==
    IF Len(offsets) = 0 THEN address
    ELSE WalkChain(ValueAt(address) + Head(offsets), Tail(offsets))

\* C21 (as claimed): the chain of every published result, walked from its base
\* address, ends at the target address.
C21_ChainReachesTarget ==
    \A i \in 1..Len(pointer_scan_results) :
        WalkChain(pointer_scan_results[i][1], pointer_scan_results[i][2]) = target_address

\* C22: the offsets of a published result are as many as the level, counted
\* from 1, at which the result was found, and no more than the maximum depth.
C22_OffsetsLengthIsDepth ==
    \A i \in 1..Len(pointer_scan_results) :
        /\ Len(pointer_scan_results[i][2]) = pointer_scan_results[i][3]
        /\ Len(pointer_scan_results[i][2]) <= max_depth

\* C22 witness: results found at the first and at the second level are
\* published.
C22_Witness ==
    /\ pointer_pc = "done"
    /\ \E i \in 1..Len(pointer_scan_results) : pointer_scan_results[i][3] = 1
    /\ \E i \in 1..Len(pointer_scan_results) :
          pointer_scan_results[i][3] = 2 /\ Len(pointer_scan_results[i][2]) = 2

\* C23 (as claimed): the progress a task publishes lies in [0, 1].
C23_ProgressInUnitInterval ==
    /\ 0 <= pointer_task_progress[1]
    /\ pointer_task_progress[1] <= pointer_task_progress[2]

\* ------------------------------------------- element scan request: claims

\* The request chose an alignment.
AlignmentChosen == plan_pc = "done" /\ opened_process /\ region_count > 0

\* The unit sizes requested all agree.
SizesAgree == Len(unit_sizes) > 0 /\ \A i \in 1..Len(unit_sizes) : unit_sizes[i] = unit_sizes[1]

\* The last two steps of the ladder: the unit size when all types agree, else 1.
AgreedUnitSizeOrOne == IF SizesAgree THEN unit_sizes[1] ELSE 1

\* C24 (as claimed): the alignment is the explicit one if set, else the
\* fast-scan alignment if set, else 16 if fast-scan-last-digits is set, else
\* the agreed unit size, else 1; and it is one of 1, 2, 4, 8, 16.
C24_AlignmentLadder ==
    AlignmentChosen =>
        /\ plan_alignment \in {1, 2, 4, 8, 16}
        /\ plan_alignment = IF explicit_alignment # 0 THEN explicit_alignment
                            ELSE IF fast_scan_alignment # 0 THEN fast_scan_alignment
                            ELSE IF fast_scan_last_digits THEN 16
                            ELSE AgreedUnitSizeOrOne

\* C24 (amended): the alignment is the explicit one if set; else, with fast
\* scan enabled, the fast-scan alignment if set, else 16 if
\* fast-scan-last-digits is set, else the agreed unit size, else 1; and with
\* fast scan disabled, 1. It is one of 1, 2, 4, 8, 16.
C24_AlignmentLadderWhenFastScanEnabled ==
    AlignmentChosen =>
        /\ plan_alignment \in {1, 2, 4, 8, 16}
        /\ plan_alignment = IF explicit_alignment # 0 THEN explicit_alignment
                            ELSE IF ~fast_scan_enabled THEN 1
                            ELSE IF fast_scan_alignment # 0 THEN fast_scan_alignment
                            ELSE IF fast_scan_last_digits THEN 16
                            ELSE AgreedUnitSizeOrOne

C24_Witness ==
    /\ AlignmentChosen
    /\ explicit_alignment = 0
    /\ fast_scan_enabled
    /\ fast_scan_alignment = 0
    /\ ~fast_scan_last_digits
    /\ Len(unit_sizes) = 2
    /\ SizesAgree
    /\ plan_alignment = 4

\* The request reached the deanonymization of its constraints.
ConstraintsParsed == plan_pc = "done" /\ opened_process /\ region_count > 0

\* Some requested data type is left with a constraint.
SomeTypeHasConstraint == \E i \in 1..Len(constraint_counts) : constraint_counts[i] > 0

\* C25: a request whose data types all yield zero constraints after
\* deanonymization aborts: its response carries no task handle, no task is
\* started or registered and the snapshot is as it was; a request of which at
\* least one data type yields a constraint proceeds: a task is started and
\* registered and its handle returned.
C25_AbortIffNoConstraints ==
    ConstraintsParsed =>
        /\ ~SomeTypeHasConstraint =>
               /\ ~trackable_task_handle
               /\ ~plan_task_started
               /\ ~plan_task_registered
               /\ plan_region_count = region_count
        /\ SomeTypeHasConstraint =>
               /\ trackable_task_handle
               /\ plan_task_started
               /\ plan_task_registered

C25_Witness ==
    /\ ConstraintsParsed
    /\ Len(constraint_counts) = 2
    /\ constraint_counts[1] = 0
    /\ constraint_counts[2] > 0
    /\ trackable_task_handle

\* --------------------------------------------------- memory queryer: claims

\* C26 (as claimed): the regions a FromSettings query returns never total
\* more than the snapshot cap.
C26_ReturnedWithinCap ==
    query_pc = "done" => SizeInBytes(normalized_regions) <= MAX_SCAN_SNAPSHOT_BYTES

\* C27 (as claimed): when the target has at least one queryable usermode
\* page, a FromSettings query returns a non-empty list of regions.
C27_NonEmptyWhenUsermodePages ==
    (query_pc = "done" /\ Len(virtual_pages) > 0) => Len(normalized_regions) > 0

\* ------------------------------------------------- task registry: claims

\* C28: every task registered with the task manager, by an element scan or by
\* a pointer scan, is eventually unregistered, whether it ran to its end or
\* was cancelled.
C28_RegisteredEventuallyUnregistered ==
    /\ \A t \in Tasks : (t \in registered) ~> (t \notin registered)
    /\ pointer_task_registered ~> ~pointer_task_registered

C28_Witness ==
    \E t \in Tasks :
        /\ task_kind[t] = "scan"
        /\ cancellation_token[t]
        /\ waiter_pc[t] = "emitted"
        /\ t \notin registered

\* ---------------------------------------------------- scan settings: claims

\* The text holds the value under the field's name.
JsonContains(text, field, value) ==
    \E i \in 1..Len(text) : text[i][1] = field /\ text[i][2] = value

\* No setter is running.
AllSettersReturned == \A th \in Setters : setter_pc[th] = "idle"

C30_WriterMutexPerType ==
    \A a \in lookups_returned, b \in lookups_returned : (a[1] = b[1]) <=> (a[2] = b[2])

C30_Witness ==
    /\ lookups_made = MaxLookups
    /\ \A w \in Writers : lookup_pc[w] = "idle"
    /\ Cardinality(lookups_returned) = 2
    /\ leaked_mutexes = 2

\* ------------------------------------------------- engine: cancellation

\* C31 (as claimed): after a cancel has been requested for a task, the task
\* processes no region work unit that had not begun, the work units of the
\* value collection it runs as part of the scan included.
C31_NoRegionProcessedAfterCancel ==
    \A t \in Tasks : ~processed_after_cancel[t]

\* The ids of the regions of a snapshot.
RegionIdsOf(regions) == {regions[k].id : k \in DOMAIN regions}

\* Task t puts its regions back in this step.
StoresBack(t) == task_pc[t] \in {"collect_store", "scan_store"} /\ task_pc'[t] # task_pc[t]

\* C32: the snapshot a value-collection pass or an interleaved-read scan pass
\* stores back holds no region whose read failed (every slice failing) and
\* every region whose read succeeded (at least one slice read).
C32_StoredBackDropsFailedKeepsRead ==
    [][\A t \in Tasks : StoresBack(t) =>
          \A read \in region_reads[t] :
              read[2] <=> read[1] \in RegionIdsOf(snapshot')]_vars

C32_Witness ==
    \E t \in Tasks :
        /\ task_pc[t] = "done"
        /\ region_reads[t] = {<<1, FALSE>>, <<2, TRUE>>}
        /\ RegionIdsOf(snapshot) = {2}

\* The regions held by the snapshot or by a task that took them out.
HeldRegions ==
    RegionIdsOf(snapshot) \cup UNION {RegionIdsOf(snapshot_regions[t]) : t \in Tasks}

\* No task is running.
AllTasksFinished == \A t \in Tasks : task_pc[t] \in {"idle", "refused", "done"}

\* C34 (as claimed): the take-out / put-back protocol loses and duplicates no
\* region: a step that leaves all tasks finished leaves in the snapshot, once
\* each, every region that was held before it, except those whose read failed.
C34_NoRegionLostOrDuplicated ==
    [][AllTasksFinished' =>
          /\ \A id \in HeldRegions :
                 \/ id \in RegionIdsOf(snapshot')
                 \/ \E t \in Tasks : <<id, FALSE>> \in region_reads'[t]
          /\ Cardinality(RegionIdsOf(snapshot')) = Len(snapshot')]_vars

\* The timeout thread of pass p sends a cancel for the task of pass q in this step.
TimerCancels(p, q) ==
    /\ timeout_pc[p] = "sleeping" /\ timeout_pc'[p] = "expired"
    /\ ~cancel_requested[q] /\ cancel_requested'[q]

\* The timeout thread of pass p writes "Scan timed out." in this step.
TimerReports(p) == ~timed_out_reported[p] /\ timed_out_reported'[p]

\* Every pass before the latest is over: its task handle was received, its
\* task has ended, cancelled or not, and its ScanResultsUpdatedEvent was
\* delivered.
EarlierPassesOver ==
    \A q \in Passes :
        q < passes_started =>
            response[q] = "delivered" /\ task[q] = "complete" /\ event[q] = "delivered"

\* C33 (as claimed): a pass is timed out only by its own timer: when the earlier
\* passes are over, the timeout thread scheduled for pass p cancels no task but
\* that of pass p, and writes "Scan timed out." only while pass p is the scan
\* in progress.
C33_TimerActsOnItsOwnPass ==
    [][EarlierPassesOver =>
          \A p \in Passes :
              /\ \A q \in Passes : TimerCancels(p, q) => q = p
              /\ TimerReports(p) => passes_started = p]_vars

\* C35 (as claimed): start_next_scan without a usable constraint returns: the
\* calling thread is not left waiting on the writer mutex, the error message
\* becomes "No valid scan constraints provided." and the view does not become
\* ScanInProgress.
C35_StartWithoutConstraintsReturns ==
    [][(StartScanWithResults(FALSE) \/ NewScanResponse(FALSE)) =>
          /\ view_write_mutex' = "free"
          /\ last_error_message' = "No valid scan constraints provided."
          /\ view_state' = "ScanInProgress" => view_state = "ScanInProgress"]_vars

\* The view shows a cancelled or timed out scan.
CancelledView ==
    /\ view_state = "NoResults"
    /\ last_error_message \in {"Scan canceled.", "Scan timed out."}

\* C36 (as claimed): cancellation is terminal for the view: from a view that
\* shows a cancelled or timed out scan no step leads to HasResults with
\* progress 1.0, and the message is cleared only by the start of a new scan or
\* by the reset of the view.
C36_CancellationIsTerminal ==
    [][CancelledView =>
          /\ ~(view_state' = "HasResults" /\ scan_progress' = "one")
          /\ last_error_message' = "None" =>
                 view_state' = "ScanInProgress" \/ ResetScanResponse]_vars

\* C37 (as claimed): scan_task_id is set only while a scan is in progress, and
\* then it is the id of the task of the most recently submitted scan.
C37_TaskIdOfScanInProgress ==
    scan_task_id # 0 => view_state = "ScanInProgress" /\ scan_task_id = passes_started

\* C38 (as claimed): the view never has two element scans in flight: an
\* ElementScanRequest is submitted only when the view is not in ScanInProgress,
\* the previous scan having completed, been cancelled or timed out.
C38_OneScanInFlight ==
    [][passes_started' # passes_started => view_state # "ScanInProgress"]_vars

\* The value the scan read at a pointer address.
ValueRead(address) ==
    CHOOSE value \in PointerValues :
        \E i \in DOMAIN pointer_map[value] : pointer_map[value][i] = address

\* The pointer chains of n hops that end at the target, each as its base
\* address and its offsets: every hop leads from the value of a pointer forward
\* to the next address of the chain, by at most max_offset.
RECURSIVE ChainsOfLength(_)
ChainsOfLength(n) ==
    IF n = 0 THEN {<<target_address, <<>> >>}
    ELSE {<<hop[1], <<hop[2][1] - ValueRead(hop[1])>> \o hop[2][2]>> :
             hop \in {h \in SlotAddresses \X ChainsOfLength(n - 1) :
                         /\ ValueRead(h[1]) <= h[2][1]
                         /\ h[2][1] - ValueRead(h[1]) <= max_offset}}

PublishedChains == {pointer_scan_results[i] : i \in DOMAIN pointer_scan_results}

\* C39 (as claimed): a pointer scan that was not cancelled and did not reach the
\* cap publishes every chain of at most max_depth hops within max_offset that
\* ends at the target.
C39_EveryChainPublished ==
    (/\ pointer_pc = "done"
     /\ ~pointer_cancellation_token
     /\ Len(pointer_scan_results) < MAX_RESULTS) =>
        \A n \in 1..max_depth :
            \A chain \in ChainsOfLength(n) : <<chain[1], chain[2], n>> \in PublishedChains

\* C40 (as claimed): a writer that panics while mutating through its guard
\* publishes nothing: the step of the panic leaves the published value as it was.
C40_PanicPublishesNothing ==
    [][\A w \in Writers :
          ~panicked[w] /\ panicked'[w] => heap'[shared_lock'] = heap[shared_lock]]_vars
====
